---- MODULE Spec2Model ----
(***************************************************************************)
(* Model of librmrfd: the PriorityQueue with its ReceiveGuard/Drained      *)
(* protocol (priority_queue.rs) and the InventoryGatherer worker pool      *)
(* (inventory_gatherer.rs).                                                *)
(*                                                                         *)
(* Every atomic operation of the queue (fetch_add, store, compare_exchange,*)
(* fetch_sub, a critical section on the heap mutex, notify_one) is one     *)
(* step of the thread executing it, so that all interleavings of send,     *)
(* recv, try_recv and the guard's drop are explored.                       *)
(***************************************************************************)
EXTENDS Integers, Sequences, FiniteSets, Bags, TLC

VARIABLES
    heap,             \* PriorityQueue.heap: bag of QueueEntry
    in_progress,      \* PriorityQueue.in_progress
    is_drained,       \* PriorityQueue.is_drained
    pc,               \* position of every thread
    ret,              \* where a thread continues after the queue call it is in
    guard,            \* the ReceiveGuard a thread holds (its item), or NoGuard
    arg,              \* the entry a thread is about to push
    res,              \* outcome of a thread's last recv / try_recv
    nsent,            \* number of send calls made so far
    drainedAfterLast, \* Drained markers handed out since an Item guard was last destroyed
    phase,            \* sequential client: "send", "recv" or "drained"
    cycle,            \* sequential client: number of the current send/drain cycle
    batch,            \* sequential client: priorities sent in this cycle
    log,              \* sequential client: entries received in this cycle
    chan,             \* inventory_send_queue: records buffered in the sync_channel
    pending,          \* InventoryGatherer.inventory_send_queue_pending
    cur,              \* worker: the directory it has open, or NoDir
    todo,             \* worker: entries of that directory not yet processed
    msg,              \* worker: the record it is sending to the channel
    donesAfterLast,   \* Done records sent since an Item guard was last destroyed
    placed,           \* records sent to the channel so far, by kind
    lastPlaced,       \* kind of the record sent to the channel last
    fails,            \* failures of open, list_self, readdir and metadata so far
    failPending,      \* an open failed and no Done record was sent since
    owed,             \* a root was submitted and no later Done reached the consumer
    roots,            \* the roots submitted so far
    submitted,        \* load_dir_recursive calls so far, by root
    opened,           \* directories opened and listed so far, by path
    classified,       \* process_entry calls so far, by the entry's path
    consumed,         \* records the consumer has taken from the channel so far
    closed,           \* the Receiver of the channel was dropped
    sendFailed,       \* worker: a send to the channel returned an error
    fin,              \* block filter: the metadata of an entry and the configured minimum
    fout,             \* block filter: what was done with the entry
    pin,              \* priority arithmetic: depth and inode of two sub-directories
    pout,             \* priority arithmetic: their priorities and the priority of a root
    item,             \* the entry into_item returned to a thread, or NoGuard
    onodes,           \* the ObjectPath nodes allocated so far: parent (0 for None) and name
    entries,          \* Inventory.entries: device -> ordered map InventoryKey -> ObjectList
    reported,         \* the (device, blocks, inode, path) the directory walk met so far
    olist,            \* ObjectList: the Vec of nodes
    present,          \* the name sequences inserted into the ObjectList and not removed
    ofound,           \* the last contains call on the ObjectList and its result
    target,           \* the PathBuf the caller hands to write_pathbuf
    written,          \* the last materialisation of a node: by what, from what buffer, the result
    cached_names,     \* the pool of names: the handles it holds
    nalloc,           \* handles allocated so far
    interned,         \* the intern calls that returned: the name and the handle returned
    ipc,              \* worker: the name it is interning while it holds the pool, or NoName
    names_lock,       \* the worker that holds the mutex of the pool, or 0
    builder,          \* RmrfdBuilder: its fields, and whether start was called
    last_call,        \* the configuration call made last on the builder
    handles,          \* Arc<Dir>: the strong count of the handles of a directory, 0 when closed
    dying             \* the parent handle held by the item of a guard whose drop is under way

qvars == <<heap, in_progress, is_drained>>
tvars == <<pc, ret, guard, arg, res>>
hvars == <<nsent, drainedAfterLast, donesAfterLast>>
svars == <<phase, cycle, batch, log>>
gvars == <<chan, pending, cur, todo, msg>>
xvars == <<placed, lastPlaced, fails, failPending, owed, roots>>
yvars == <<submitted, opened, classified, consumed>>
kvars == <<closed, sendFailed>>
fvars == <<fin, fout>>
pvars == <<pin, pout>>
ivars == <<item>>
ovars == <<onodes, target, written>>
nvars == <<entries, reported>>
uvars == <<olist, present, ofound>>
mvars == <<cached_names, nalloc, interned, ipc, names_lock>>
bvars == <<builder, last_call>>
libvars == <<ovars, nvars, uvars, mvars, bvars>>
but_ovars == <<nvars, uvars, mvars, bvars>>
but_nvars == <<ovars, uvars, mvars, bvars>>
but_uvars == <<ovars, nvars, mvars, bvars>>
but_mvars == <<ovars, nvars, uvars, bvars>>
but_bvars == <<ovars, nvars, uvars, mvars>>
dvars == <<handles, dying>>
lvars_h == <<ivars, libvars>>
lvars == <<ivars, libvars, dvars>>
basevars_c == <<svars, gvars, xvars, yvars, kvars, fvars, pvars, dvars>>
basevars == <<qvars, tvars, hvars, basevars_c>>
cvars == <<svars, gvars, xvars, yvars, kvars, fvars, pvars, lvars>>
cvars_h == <<svars, gvars, xvars, yvars, kvars, fvars, pvars, lvars_h>>
vars  == <<heap, in_progress, is_drained, pc, ret, guard, arg, res,
           nsent, drainedAfterLast, phase, cycle, batch, log,
           chan, pending, cur, todo, msg,
           donesAfterLast, placed, lastPlaced, fails, failPending, owed, roots,
           submitted, opened, classified, consumed, closed, sendFailed, fin, fout,
           pin, pout, item, onodes, entries, reported, olist, present, ofound,
           target, written, cached_names, nalloc, interned, ipc, names_lock,
           builder, last_call, handles, dying>>

----------------------------------------------------------------------------
(* Bounds *)

NClients  == 2    \* client threads of the concurrent queue specification
MaxSends  == 3    \* send calls in one behaviour of the concurrent specification
MaxPrio   == 3    \* priorities are drawn from 1..MaxPrio
MaxBatch  == 3    \* send calls per cycle of the sequential client
MaxCycles == 2    \* send/drain cycles of the sequential client
MaxProbe  == 2    \* try_recv calls after a Drained in one cycle
NWorkers  == 2    \* num_threads: worker threads of the gatherer
MaxSubmits == 2   \* load_dir_recursive calls in one behaviour
MaxBlocks == 4    \* block counts, sizes and min_blocks of the block filter are in 0..MaxBlocks
MaxDepth  == 2    \* depths of the sub-directories of the priority arithmetic are in 1..MaxDepth
MaxFails  == 1    \* failing open, list_self, readdir or metadata calls in one behaviour
InventoryBacklog == 1  \* inventory_backlog: capacity of the output channel
MaxNodes == 3     \* ObjectPath nodes built in one behaviour
MaxInterns == 4   \* intern calls in one behaviour
NInternWorkers == 2 \* threads that intern names
MaxConfig == 2    \* arguments of the with_.. calls of the builder are in 1..MaxConfig
MaxReports == 3   \* entries one walk of the experiment's inventory meets
MaxInvBlocks == 2 \* block counts of those entries are in 0..MaxInvBlocks
MaxInvInode == 2  \* inodes of those entries are in 1..MaxInvInode

Clients == 1..NClients
Prios   == 1..MaxPrio
SeqT    == 1

\* width of usize (AtomicUsize in_progress), scaled down from 64 bits
UsizeMod == 2^8

----------------------------------------------------------------------------
(* QueueEntry and its ordering *)

NoDir == "nodir"

TraverseDirectory(path, parent_dir) == [path |-> path, parent_dir |-> parent_dir]

NoKey == TraverseDirectory("", NoDir)

Item(k, p) == [type |-> "Item", k |-> k, p |-> p]
Drained    == [type |-> "Drained", k |-> NoKey, p |-> 0]
Taken      == [type |-> "Taken", k |-> NoKey, p |-> 0]
NoGuard    == [type |-> "NoGuard", k |-> NoKey, p |-> 0]
NoneEntry  == [type |-> "None", k |-> NoKey, p |-> 0]

IntCmp(a, b) == IF a < b THEN "Less" ELSE IF a = b THEN "Equal" ELSE "Greater"

\* the comparison with the Item arm not reversed
QueueEntryCmp_ItemsNotReversed(a, b) ==
    CASE a.type = "Item" /\ b.type = "Item"       -> IntCmp(a.p, b.p)
      [] a.type = "Drained" /\ b.type = "Drained" -> "Equal"
      [] a.type = "Drained"                       -> "Greater"
      [] b.type = "Drained"                       -> "Less"
      [] OTHER                                    -> "unreachable"

\* impl Ord for QueueEntry: cmp(self = a, other = b)
QueueEntryCmp(a, b) ==
    CASE a.type = "Item" /\ b.type = "Item"       -> IntCmp(b.p, a.p)
      [] a.type = "Drained" /\ b.type = "Drained" -> "Equal"
      [] a.type = "Drained"                       -> "Greater"
      [] b.type = "Drained"                       -> "Less"
      [] OTHER                                    -> "unreachable"

\* a pop that returns any entry of the heap
PopCandidates_AnyEntry(h) == BagToSet(h)

\* BinaryHeap::pop returns a greatest entry; which one among equals is unspecified
PopCandidates(h) ==
    {e \in BagToSet(h) :
        \A x \in BagToSet(h) : QueueEntryCmp(e, x) \in {"Greater", "Equal"}}

HeapItems(h) == {e \in BagToSet(h) : e.type = "Item"}

HeapIsEmpty(h) == BagToSet(h) = {}

NoRes == [ret |-> "-", left |-> 0]

\* kinds of InventoryEntriesMessage, the Err records by what failed
Kinds == {"Entry", "Done", "ErrOpen", "ErrList", "ErrEntry", "ErrStat"}

NothingPlaced == [k \in Kinds |-> 0]

\* metadata.blocks() and metadata.size() are Option: None when not available
NoBlocks == -1

\* unwrap_or(0)
unwrap_or_0(v) == IF v = NoBlocks THEN 0 ELSE v

\* a filter that keeps every entry
KeepsEntry_Always(blocks, mb) == TRUE

\* process_entry: blocks > self.min_blocks
KeepsEntry(blocks, mb) == blocks > mb

\* the block filter has no entry at hand
NoEntry == [blocks |-> NoBlocks, size |-> NoBlocks, min_blocks |-> 0]

\* the block filter has not run
NotFiltered == [kind |-> "none", blocks |-> 0, by |-> "none"]

\* the paths of the trees the gatherer walks
Nodes == {"r", "e", "d", "f", "g"}

NothingVisited == [n \in Nodes |-> 0]

\* no directory handle is open
NoHandles == [n \in Nodes |-> 0]

\* Arc::new(dir) and Arc::clone: one more strong reference to the handle of d
arc_clone(h, d) == [h EXCEPT ![d] = @ + 1]

\* drop of an Option<Arc<Dir>>: one reference less, the handle is closed at 0
arc_drop(h, d) == IF d = NoDir THEN h ELSE [h EXCEPT ![d] = @ - 1]

----------------------------------------------------------------------------
(* PriorityQueue operations, one step per atomic operation *)

Threads == DOMAIN pc

\* a notify_one that wakes no thread
notify_one_WakesNobody(t, after) == pc' = [pc EXCEPT ![t] = after]

\* Condvar::notify_one: wakes one thread blocked in recv, if there is one
notify_one(t, after) ==
    LET ws == {w \in Threads : pc[w] = "recv_wait"} IN
    IF ws = {}
    THEN pc' = [pc EXCEPT ![t] = after]
    ELSE \E w \in ws : pc' = [pc EXCEPT ![t] = after, ![w] = "recv"]

\* a send that does not count the Item
send_fetch_add_NoCount(t, entry, after) ==
    /\ in_progress' = in_progress
    /\ arg' = [arg EXCEPT ![t] = entry]
    /\ ret' = [ret EXCEPT ![t] = after]
    /\ pc' = [pc EXCEPT ![t] = "send_store"]
    /\ res' = [res EXCEPT ![t] = NoRes]
    /\ UNCHANGED <<heap, is_drained, guard>>

\* send, first statement: in_progress.fetch_add(1)
send_fetch_add(t, entry, after) ==
    /\ in_progress' = (in_progress + 1) % UsizeMod
    /\ arg' = [arg EXCEPT ![t] = entry]
    /\ ret' = [ret EXCEPT ![t] = after]
    /\ pc' = [pc EXCEPT ![t] = "send_store"]
    /\ res' = [res EXCEPT ![t] = NoRes]
    /\ UNCHANGED <<heap, is_drained, guard>>

\* send: is_drained.store(false)
send_store(t) ==
    /\ pc[t] = "send_store"
    /\ is_drained' = FALSE
    /\ pc' = [pc EXCEPT ![t] = "send_push"]
    /\ UNCHANGED <<heap, in_progress, ret, guard, arg, res, hvars, cvars>>

\* send: heap.lock().push(Item(item, prio))
send_push(t) ==
    /\ pc[t] = "send_push"
    /\ heap' = heap (+) SetToBag({arg[t]})
    /\ arg' = [arg EXCEPT ![t] = NoGuard]
    /\ pc' = [pc EXCEPT ![t] = "send_notify"]
    /\ UNCHANGED <<in_progress, is_drained, ret, guard, res, hvars, cvars>>

\* send: notify.notify_one()
send_notify(t) ==
    /\ pc[t] = "send_notify"
    /\ notify_one(t, ret[t])
    /\ UNCHANGED <<qvars, ret, guard, arg, res, hvars, cvars>>

\* ReceiveGuard::drop: in_progress.fetch_sub(1) == 1 decides on send_drained
drop_fetch_sub(t, after) ==
    /\ guard[t] # NoGuard
    /\ in_progress' = (in_progress - 1) % UsizeMod
    /\ guard' = [guard EXCEPT ![t] = NoGuard]
    /\ ret' = [ret EXCEPT ![t] = after]
    /\ pc' = [pc EXCEPT ![t] = IF in_progress = 1 THEN "send_drained_cas" ELSE after]
    /\ res' = [res EXCEPT ![t] = NoRes]
    /\ drainedAfterLast' = IF guard[t].type = "Item" THEN 0 ELSE drainedAfterLast
    /\ donesAfterLast' = IF guard[t].type = "Item" THEN 0 ELSE donesAfterLast
    /\ UNCHANGED <<heap, is_drained, arg, nsent>>

\* an into_item that forgets the guard: the entry is returned, no bookkeeping
into_item_ForgetsGuard(t, after) ==
    /\ guard[t] # NoGuard
    /\ item' = [item EXCEPT ![t] = guard[t]]
    /\ guard' = [guard EXCEPT ![t] = NoGuard]
    /\ ret' = [ret EXCEPT ![t] = after]
    /\ pc' = [pc EXCEPT ![t] = after]
    /\ res' = [res EXCEPT ![t] = NoRes]
    /\ UNCHANGED <<qvars, arg, hvars>>

\* ReceiveGuard::into_item: std::mem::take(&mut self.item) is returned (the
\* guard keeps Taken), then self goes out of scope and ReceiveGuard::drop runs
into_item(t, after) ==
    /\ item' = [item EXCEPT ![t] = guard[t]]
    /\ drop_fetch_sub(t, after)

\* ReceiveGuard::drop has returned: the fields of the guard are dropped, the
\* item with its parent_dir
drop_item(t) ==
    /\ handles' = arc_drop(handles, dying[t])
    /\ dying' = [dying EXCEPT ![t] = NoDir]

\* send_drained that pushes the marker whatever is_drained says
send_drained_cas_IgnoresFlag(t) ==
    /\ pc[t] = "send_drained_cas"
    /\ is_drained' = TRUE
    /\ pc' = [pc EXCEPT ![t] = "send_drained_fetch_add"]
    /\ UNCHANGED <<heap, in_progress, ret, guard, arg, res, hvars, cvars>>

\* send_drained: is_drained.compare_exchange(false, true); when it fails
\* send_drained and the guard's drop return
send_drained_cas(t) ==
    /\ pc[t] = "send_drained_cas"
    /\ IF is_drained = FALSE
       THEN /\ is_drained' = TRUE
            /\ pc' = [pc EXCEPT ![t] = "send_drained_fetch_add"]
            /\ UNCHANGED dvars
       ELSE /\ is_drained' = is_drained
            /\ pc' = [pc EXCEPT ![t] = ret[t]]
            /\ drop_item(t)
    /\ UNCHANGED <<heap, in_progress, ret, guard, arg, res, hvars, cvars_h>>

\* a send_drained that does not count the marker
send_drained_fetch_add_NoCount(t) ==
    /\ pc[t] = "send_drained_fetch_add"
    /\ in_progress' = in_progress
    /\ pc' = [pc EXCEPT ![t] = "send_drained_push"]
    /\ UNCHANGED <<heap, is_drained, ret, guard, arg, res, hvars, cvars>>

\* send_drained: in_progress.fetch_add(1)
send_drained_fetch_add(t) ==
    /\ pc[t] = "send_drained_fetch_add"
    /\ in_progress' = (in_progress + 1) % UsizeMod
    /\ pc' = [pc EXCEPT ![t] = "send_drained_push"]
    /\ UNCHANGED <<heap, is_drained, ret, guard, arg, res, hvars, cvars>>

\* a send_drained that pushes the Taken sentinel
send_drained_push_Taken(t) ==
    /\ pc[t] = "send_drained_push"
    /\ heap' = heap (+) SetToBag({Taken})
    /\ pc' = [pc EXCEPT ![t] = "send_drained_notify"]
    /\ UNCHANGED <<in_progress, is_drained, ret, guard, arg, res, hvars, cvars>>

\* send_drained: heap.lock().push(Drained)
send_drained_push(t) ==
    /\ pc[t] = "send_drained_push"
    /\ heap' = heap (+) SetToBag({Drained})
    /\ pc' = [pc EXCEPT ![t] = "send_drained_notify"]
    /\ UNCHANGED <<in_progress, is_drained, ret, guard, arg, res, hvars, cvars>>

\* send_drained: notify.notify_one(); send_drained and the guard's drop return
send_drained_notify(t) ==
    /\ pc[t] = "send_drained_notify"
    /\ notify_one(t, ret[t])
    /\ drop_item(t)
    /\ UNCHANGED <<qvars, ret, guard, arg, res, hvars, cvars_h>>

\* recv that hands out an entry and leaves it in the heap
recv_to_LeavesEntryInHeap(t, after) ==
    /\ pc[t] = "recv"
    /\ IF HeapIsEmpty(heap)
       THEN /\ pc' = [pc EXCEPT ![t] = "recv_wait"]
            /\ UNCHANGED <<heap, guard, res, drainedAfterLast>>
       ELSE \E e \in PopCandidates(heap) :
                /\ heap' = heap
                /\ guard' = [guard EXCEPT ![t] = e]
                /\ res' = [res EXCEPT ![t] =
                              [ret |-> "Some", left |-> BagCardinality(heap) - 1]]
                /\ drainedAfterLast' = drainedAfterLast + (IF e = Drained THEN 1 ELSE 0)
                /\ pc' = [pc EXCEPT ![t] = after]
    /\ UNCHANGED <<in_progress, is_drained, ret, arg, nsent, donesAfterLast, cvars>>

\* recv: wait_while(heap.lock(), |heap| heap.is_empty()).pop(), wrapped in a
\* guard; the caller continues at `after`
recv_to(t, after) ==
    /\ pc[t] = "recv"
    /\ IF HeapIsEmpty(heap)
       THEN /\ pc' = [pc EXCEPT ![t] = "recv_wait"]
            /\ UNCHANGED <<heap, guard, res, drainedAfterLast>>
       ELSE \E e \in PopCandidates(heap) :
                /\ heap' = heap (-) SetToBag({e})
                /\ guard' = [guard EXCEPT ![t] = e]
                /\ res' = [res EXCEPT ![t] =
                              [ret |-> "Some", left |-> BagCardinality(heap) - 1]]
                /\ drainedAfterLast' = drainedAfterLast + (IF e = Drained THEN 1 ELSE 0)
                /\ pc' = [pc EXCEPT ![t] = after]
    /\ UNCHANGED <<in_progress, is_drained, ret, arg, nsent, donesAfterLast, cvars>>

\* recv called by a client of the queue
recv(t) == recv_to(t, ret[t])

\* a thread that may hold the heap mutex: it is at a critical section
HoldsLock(u) == pc[u] \in {"send_push", "send_drained_push", "recv"}

\* try_recv: heap.try_lock(), then pop; None on WouldBlock or on an empty heap
try_recv(t) ==
    /\ \/ /\ \/ HeapIsEmpty(heap)
             \/ \E u \in Threads \ {t} : HoldsLock(u)
          /\ res' = [res EXCEPT ![t] = [ret |-> "None", left |-> 0]]
          /\ UNCHANGED <<heap, guard, drainedAfterLast>>
       \/ \E e \in PopCandidates(heap) :
              /\ heap' = heap (-) SetToBag({e})
              /\ guard' = [guard EXCEPT ![t] = e]
              /\ res' = [res EXCEPT ![t] =
                            [ret |-> "Some", left |-> BagCardinality(heap) - 1]]
              /\ drainedAfterLast' = drainedAfterLast + (IF e = Drained THEN 1 ELSE 0)
    /\ UNCHANGED <<in_progress, is_drained, ret, arg, nsent, donesAfterLast>>

----------------------------------------------------------------------------
(* Concurrent clients of the queue: tests::threads generalised *)

ClientSend(t) ==
    /\ pc[t] = "idle"
    /\ nsent < MaxSends
    /\ \E p \in Prios : send_fetch_add(t, Item(TraverseDirectory("a", NoDir), p), "idle")
    /\ nsent' = nsent + 1
    /\ UNCHANGED <<drainedAfterLast, donesAfterLast, cvars>>

ClientRecv(t) ==
    /\ pc[t] = "idle"
    /\ guard[t] = NoGuard
    /\ pc' = [pc EXCEPT ![t] = "recv"]
    /\ ret' = [ret EXCEPT ![t] = "idle"]
    /\ res' = [res EXCEPT ![t] = NoRes]
    /\ UNCHANGED <<qvars, guard, arg, hvars, cvars>>

ClientTryRecv(t) ==
    /\ pc[t] = "idle"
    /\ guard[t] = NoGuard
    /\ try_recv(t)
    /\ UNCHANGED <<pc, cvars>>

ClientDrop(t) ==
    /\ pc[t] = "idle"
    /\ drop_fetch_sub(t, "idle")
    /\ UNCHANGED cvars

\* let entry = guard.into_item()
ClientIntoItem(t) ==
    /\ pc[t] = "idle"
    /\ item[t] = NoGuard
    /\ into_item(t, "got_item")
    /\ UNCHANGED <<basevars_c, libvars>>

\* the caller is done with the entry into_item returned
ClientGotItem(t) ==
    /\ pc[t] = "got_item"
    /\ item' = [item EXCEPT ![t] = NoGuard]
    /\ pc' = [pc EXCEPT ![t] = "idle"]
    /\ UNCHANGED <<qvars, ret, guard, arg, res, hvars, basevars_c, libvars>>

\* PriorityQueue::new, and nothing sent or received yet
InitQueue(threads) ==
    /\ heap = EmptyBag
    /\ in_progress = 0
    /\ is_drained = TRUE
    /\ ret = [t \in threads |-> "idle"]
    /\ guard = [t \in threads |-> NoGuard]
    /\ arg = [t \in threads |-> NoGuard]
    /\ res = [t \in threads |-> NoRes]
    /\ nsent = 0
    /\ drainedAfterLast = 0
    /\ donesAfterLast = 0
    /\ phase = "send"
    /\ cycle = 1
    /\ batch = <<>>
    /\ log = <<>>
    /\ placed = NothingPlaced
    /\ lastPlaced = "none"
    /\ fails = 0
    /\ failPending = FALSE
    /\ owed = FALSE
    /\ roots = {}
    /\ submitted = NothingVisited
    /\ opened = NothingVisited
    /\ classified = NothingVisited
    /\ consumed = 0
    /\ item = [t \in threads |-> NoGuard]
    /\ handles = NoHandles
    /\ dying = [t \in threads |-> NoDir]

\* no gatherer: the queue is used by the clients alone
NoGatherer ==
    /\ chan = <<>>
    /\ pending = 0
    /\ cur = <<>>
    /\ todo = <<>>
    /\ msg = <<>>
    /\ closed = FALSE
    /\ sendFailed = <<>>

\* the block filter is not looked at
NoFilter ==
    /\ fin = NoEntry
    /\ fout = NotFiltered

\* no priority computed outside a traversal
NoPriority == [p1 |-> 0, p2 |-> 0, root |-> 0, overflow |-> FALSE, done |-> FALSE]

\* the priority arithmetic is not looked at
NoPrio ==
    /\ pin = [d1 |-> 0, i1 |-> 0, d2 |-> 0, i2 |-> 0]
    /\ pout = NoPriority

\* no node was materialised
NotWritten == [node |-> 0, by |-> "none", before |-> <<>>, out |-> <<>>]

\* PathBuf::new for the caller's buffer
NoPathBuf ==
    /\ target = <<>>
    /\ written = NotWritten

\* no ObjectPath node exists
NoObjects ==
    /\ onodes = <<>>
    /\ NoPathBuf

\* no Inventory: nothing was walked and nothing is stored
NoInventory ==
    /\ entries = <<>>
    /\ reported = <<>>

\* no contains call was made
NotSearched == [path |-> 0, result |-> FALSE]

\* ObjectList::new
NoObjectList ==
    /\ olist = <<>>
    /\ present = {}
    /\ ofound = NotSearched

\* no name is being interned
NoName == <<>>

\* InternedNames::new: an empty pool
NoNames ==
    /\ cached_names = {}
    /\ nalloc = 0
    /\ interned = <<>>
    /\ ipc = <<>>
    /\ names_lock = 0

\* no configuration call was made
NoCall == [name |-> "default", arg |-> 0]

\* no builder
NoBuilder ==
    /\ builder = [state |-> "none"]
    /\ last_call = NoCall

\* the data model is not looked at
NoLib ==
    /\ NoObjects
    /\ NoInventory
    /\ NoObjectList
    /\ NoNames
    /\ NoBuilder

Init ==
    /\ InitQueue(Clients)
    /\ NoLib
    /\ pc = [t \in Clients |-> "idle"]
    /\ NoGatherer
    /\ NoFilter
    /\ NoPrio

Next ==
    \/ \E t \in Clients : ClientSend(t)
    \/ \E t \in Clients : ClientRecv(t)
    \/ \E t \in Clients : ClientTryRecv(t)
    \/ \E t \in Clients : ClientDrop(t)
    \/ \E t \in Clients : ClientIntoItem(t)
    \/ \E t \in Clients : ClientGotItem(t)
    \/ \E t \in Clients : send_store(t)
    \/ \E t \in Clients : send_push(t)
    \/ \E t \in Clients : send_notify(t)
    \/ \E t \in Clients : send_drained_cas(t)
    \/ \E t \in Clients : send_drained_fetch_add(t)
    \/ \E t \in Clients : send_drained_push(t)
    \/ \E t \in Clients : send_drained_notify(t)
    \/ \E t \in Clients : recv(t)

Spec == Init /\ [][Next]_vars

----------------------------------------------------------------------------
(* A single client without concurrent operations: tests::smoke, *)
(* tests::try_recv and the second thread of tests::threads, for any *)
(* priorities and any number of send/drain cycles *)

\* queue.send(item, prio)
SeqSend ==
    /\ phase = "send"
    /\ pc[SeqT] = "idle"
    /\ Len(batch) < MaxBatch
    /\ \E p \in Prios :
          /\ send_fetch_add(SeqT, Item(TraverseDirectory("a", NoDir), p), "idle")
          /\ batch' = Append(batch, p)
    /\ UNCHANGED <<hvars, phase, cycle, log, gvars, xvars, yvars, kvars, fvars, pvars, lvars>>

\* queue.recv(), called once the sends of the cycle are made
SeqRecv ==
    /\ phase \in {"send", "recv", "drained"}
    /\ phase = "send" => Len(batch) > 0
    /\ pc[SeqT] = "idle"
    /\ guard[SeqT] = NoGuard
    /\ pc' = [pc EXCEPT ![SeqT] = "recv"]
    /\ ret' = [ret EXCEPT ![SeqT] = "seq_got"]
    /\ phase' = IF phase = "send" THEN "recv" ELSE phase
    /\ UNCHANGED <<qvars, guard, arg, res, hvars, cycle, batch, log, gvars, xvars, yvars, kvars, fvars, pvars, lvars>>

\* the entry recv returned
SeqGot ==
    /\ pc[SeqT] = "seq_got"
    /\ log' = Append(log, guard[SeqT])
    /\ pc' = [pc EXCEPT ![SeqT] = "idle"]
    /\ UNCHANGED <<qvars, ret, guard, arg, res, hvars, phase, cycle, batch, gvars, xvars, yvars, kvars, fvars, pvars, lvars>>

\* queue.try_recv(), in place of recv or after the Drained marker
SeqTryRecv ==
    /\ phase \in {"send", "recv", "drained"}
    /\ phase = "send" => Len(batch) > 0
    /\ pc[SeqT] = "idle"
    /\ guard[SeqT] = NoGuard
    /\ Len(log) < Len(batch) + 1 + MaxProbe
    /\ try_recv(SeqT)
    /\ log' = Append(log, IF res'[SeqT].ret = "Some" THEN guard'[SeqT] ELSE NoneEntry)
    /\ phase' = IF phase = "send" THEN "recv" ELSE phase
    /\ UNCHANGED <<pc, cycle, batch, gvars, xvars, yvars, kvars, fvars, pvars, lvars>>

\* the guard returned by recv or try_recv goes out of scope
SeqDrop ==
    /\ pc[SeqT] = "idle"
    /\ drop_fetch_sub(SeqT, "idle")
    /\ phase' = IF guard[SeqT] = Drained THEN "drained" ELSE phase
    /\ UNCHANGED <<cycle, batch, log, gvars, xvars, yvars, kvars, fvars, pvars, lvars>>

\* the next send starts a new cycle
SeqNextCycle ==
    /\ phase = "drained"
    /\ pc[SeqT] = "idle"
    /\ guard[SeqT] = NoGuard
    /\ cycle < MaxCycles
    /\ phase' = "send"
    /\ cycle' = cycle + 1
    /\ batch' = <<>>
    /\ log' = <<>>
    /\ res' = [res EXCEPT ![SeqT] = NoRes]
    /\ UNCHANGED <<qvars, pc, ret, guard, arg, hvars, gvars, xvars, yvars, kvars, fvars, pvars, lvars>>

InitSeq ==
    /\ InitQueue({SeqT})
    /\ NoLib
    /\ pc = [t \in {SeqT} |-> "idle"]
    /\ NoGatherer
    /\ NoFilter
    /\ NoPrio

NextSeq ==
    \/ SeqSend
    \/ SeqRecv
    \/ SeqGot
    \/ SeqTryRecv
    \/ SeqDrop
    \/ SeqNextCycle
    \/ send_store(SeqT)
    \/ send_push(SeqT)
    \/ send_notify(SeqT)
    \/ send_drained_cas(SeqT)
    \/ send_drained_fetch_add(SeqT)
    \/ send_drained_push(SeqT)
    \/ send_drained_notify(SeqT)
    \/ recv(SeqT)

SpecSeq == InitSeq /\ [][NextSeq]_vars

----------------------------------------------------------------------------
(* Properties of the sequential client *)

RECURSIVE SortAsc(_)
\* the priorities of a sequence in non-decreasing order
SortAsc(q) ==
    IF q = <<>> THEN <<>>
    ELSE LET i == CHOOSE i \in 1..Len(q) : \A j \in 1..Len(q) : q[i] <= q[j]
         IN <<q[i]>> \o SortAsc([j \in 1..(Len(q) - 1) |-> IF j < i THEN q[j] ELSE q[j + 1]])

\* C4: after sends with priorities p_1..p_n, the n following recv calls return
\* the items in non-decreasing priority order, the next one returns Drained,
\* once, and try_recv then returns None until the next send.
C4_SortedThenDrainedThenNone ==
    LET n == Len(batch) IN
    \A i \in 1..Len(log) :
        /\ i <= n => log[i].type = "Item" /\ log[i].p = SortAsc(batch)[i]
        /\ i = n + 1 => log[i] = Drained
        /\ i > n + 1 => log[i] = NoneEntry

\* a cycle whose sends were not in priority order was received, drained and probed
C4_Witness ==
    /\ Len(batch) >= 2
    /\ batch # SortAsc(batch)
    /\ Len(log) = Len(batch) + 2
    /\ log[Len(log)] = NoneEntry

\* number of entries of a kind in the log
LogCount(type) == Cardinality({i \in 1..Len(log) : log[i].type = type})

\* C6: after a Drained marker was delivered and its guard destroyed, a send
\* re-arms the cycle: the new items are delivered, after the last guard is
\* destroyed exactly one further Drained is delivered, and once its guard is
\* destroyed the queue is back at in_progress = 0 and try_recv returns None;
\* this holds in every later cycle.
C6_SendRearmsDrained ==
    cycle > 1 =>
        /\ LogCount("Drained") <= 1
        /\ (phase = "recv" /\ pc[SeqT] = "idle" /\ guard[SeqT] = NoGuard
               /\ LogCount("Item") = Len(batch))
              => (LogCount("Drained") = 0 /\ heap = SetToBag({Drained}))
        /\ (phase = "drained" /\ pc[SeqT] = "idle" /\ guard[SeqT] = NoGuard)
              => /\ LogCount("Drained") = 1
                 /\ LogCount("Item") = Len(batch)
                 /\ HeapIsEmpty(heap) /\ in_progress = 0 /\ is_drained
                 /\ \A i \in 1..Len(log) : i > Len(batch) + 1 => log[i] = NoneEntry

\* in a later cycle the items were received, the Drained marker came once, and
\* try_recv found nothing
C6_Witness ==
    /\ cycle > 1
    /\ phase = "drained" /\ pc[SeqT] = "idle" /\ guard[SeqT] = NoGuard
    /\ Len(batch) >= 1
    /\ Len(log) = Len(batch) + 2
    /\ log[Len(batch) + 1] = Drained
    /\ log[Len(log)] = NoneEntry

----------------------------------------------------------------------------
(* The directory trees the gatherer walks *)

\* the directories load_dir_recursive is called with: r holds a sub-directory
\* and a file, e is empty
Roots == {"r", "e"}

\* dir.list_self(): the entries of a directory
DirEntries(d) ==
    CASE d = "r" -> {"d", "f"}
      [] d = "d" -> {"g"}
      [] OTHER   -> {}

\* entry.simple_type() is SimpleType::Dir
IsDir(n) == n \in {"r", "e", "d"}

\* ObjectPath::depth(): 0 for a root, the parent's depth + 1 otherwise
Depth(n) ==
    CASE n \in Roots      -> 0
      [] n \in {"d", "f"} -> 1
      [] OTHER            -> 2

\* entry.inode()
Inode(n) ==
    CASE n = "r" -> 1
      [] n = "e" -> 2
      [] n = "d" -> 3
      [] n = "f" -> 4
      [] OTHER   -> 5

\* the min_blocks the gatherer is created with
min_blocks == 64

\* metadata.blocks()
Blocks(n) == IF n = "f" THEN min_blocks + 1 ELSE min_blocks

\* metadata.dev()
Dev(n) == 1

\* the calls that can fail in these trees: Dir::open, list_self, reading one
\* entry, and entry.metadata
MayFail(kind, n) ==
    CASE kind = "ErrOpen"  -> n \in {"e", "d"}
      [] kind = "ErrList"  -> n = "r"
      [] kind = "ErrEntry" -> n = "g"
      [] kind = "ErrStat"  -> n = "f"
      [] OTHER             -> FALSE

\* widths of the priority's fields, scaled down from 16 and 48 bits
DepthBits == 2
ShiftBits == 3

U16Max == 2^DepthBits - 1
U64Mod == 2^(DepthBits + ShiftBits)
U64Max == U64Mod - 1

\* process_entry: ((u16::MAX - subdir.depth()) as u64) << 48, plus
\* entry.inode(), in u64 arithmetic
dir_prio(depth, inode) == ((U16Max - depth) * 2^ShiftBits + inode) % U64Mod

\* the sum of process_entry does not fit u64: the addition panics in a build
\* with overflow checks and wraps in one without
dir_prio_overflows(depth, inode) == (U16Max - depth) * 2^ShiftBits + inode >= U64Mod

\* the priority of the sub-directory n of the trees
DirPrio(n) == dir_prio(Depth(n), Inode(n))

----------------------------------------------------------------------------
(* InventoryGatherer: the worker threads, the caller and the consumer *)

Workers == 1..NWorkers
Caller  == 0

\* InventoryEntriesMessage
Message(kind, n) ==
    [kind |-> kind, path |-> n,
     dev |-> IF kind = "Entry" THEN Dev(n) ELSE 0,
     blocks |-> IF kind = "Entry" THEN unwrap_or_0(Blocks(n)) ELSE 0,
     ino |-> IF kind = "Entry" THEN Inode(n) ELSE 0,
     epoch |-> 0,
     seq |-> 0]

NoMsg == Message("none", "")

\* load_dir_recursive(path): send_dir(new_dir(path), u64::MAX)
load_dir_recursive(root) ==
    /\ pc[Caller] = "idle"
    /\ nsent < MaxSubmits
    /\ send_fetch_add(Caller, Item(TraverseDirectory(root, NoDir), U64Max), "idle")
    /\ nsent' = nsent + 1
    /\ owed' = TRUE
    /\ roots' = roots \cup {root}
    /\ submitted' = [submitted EXCEPT ![root] = @ + 1]
    /\ UNCHANGED <<drainedAfterLast, donesAfterLast, svars, gvars,
                   placed, lastPlaced, fails, failPending, opened, classified,
                   consumed, kvars, fvars, pvars, lvars>>

\* worker loop: self.dirs_queue.recv()
worker_recv(t) == recv_to(t, "match")

\* worker loop, TraverseDirectory: open the directory (relative to the parent
\* handle or by its path), wrap the handle in an Arc and list it; an error of
\* either is sent to the channel
traverse_directory(t) ==
    /\ pc[t] = "match"
    /\ guard[t].type = "Item"
    /\ \E o \in {"ok", "ErrOpen", "ErrList"} :
          /\ o # "ok" => fails < MaxFails /\ MayFail(o, guard[t].k.path)
          /\ IF o = "ok"
             THEN /\ cur' = [cur EXCEPT ![t] = guard[t].k.path]
                  /\ todo' = [todo EXCEPT ![t] = DirEntries(guard[t].k.path)]
                  /\ pc' = [pc EXCEPT ![t] = "entry"]
                  /\ opened' = [opened EXCEPT ![guard[t].k.path] = @ + 1]
                  /\ UNCHANGED <<msg, fails>>
             ELSE /\ msg' = [msg EXCEPT ![t] = Message(o, guard[t].k.path)]
                  /\ pc' = [pc EXCEPT ![t] = "send_entry"]
                  /\ fails' = fails + 1
                  /\ UNCHANGED <<cur, todo, opened>>
          /\ handles' = IF o = "ErrOpen" THEN handles
                                         ELSE arc_clone(handles, guard[t].k.path)
    /\ UNCHANGED <<qvars, ret, guard, arg, res, hvars, svars, chan, pending,
                   placed, lastPlaced, failPending, owed, roots, submitted, classified,
                   consumed, kvars, fvars, pvars, lvars_h, dying>>

\* worker that sends no Done record when it receives Drained
drained_NoDone(t) ==
    /\ pc[t] = "match"
    /\ guard[t].type = "Drained"
    /\ pc' = [pc EXCEPT ![t] = "drop"]
    /\ UNCHANGED <<qvars, ret, guard, arg, res, hvars, svars, gvars, xvars, yvars, kvars, fvars, pvars, lvars>>

\* worker loop, Drained: send_entry(Done)
drained(t) ==
    /\ pc[t] = "match"
    /\ guard[t].type = "Drained"
    /\ msg' = [msg EXCEPT ![t] = Message("Done", "")]
    /\ pc' = [pc EXCEPT ![t] = "send_entry"]
    /\ UNCHANGED <<qvars, ret, guard, arg, res, hvars, svars, chan, pending, cur, todo,
                   xvars, yvars, kvars, fvars, pvars, lvars>>

\* process_entry whose error ends the enumeration of the directory
process_entry_ErrorEndsEnumeration(t) ==
    /\ pc[t] = "entry"
    /\ \E e \in todo[t] :
          /\ classified' = [classified EXCEPT ![e] = @ + 1]
          /\ \/ /\ fails < MaxFails
                /\ \E kind \in IF IsDir(e) THEN {"ErrEntry"} ELSE {"ErrEntry", "ErrStat"} :
                      /\ MayFail(kind, e)
                      /\ msg' = [msg EXCEPT ![t] = Message(kind, e)]
                /\ fails' = fails + 1
                /\ todo' = [todo EXCEPT ![t] = {}]
                /\ pc' = [pc EXCEPT ![t] = "send_entry"]
                /\ UNCHANGED <<qvars, ret, arg, res>>
             \/ /\ IsDir(e)
                /\ todo' = [todo EXCEPT ![t] = todo[t] \ {e}]
                /\ send_fetch_add(t, Item(TraverseDirectory(e, cur[t]), DirPrio(e)), "entry")
                /\ UNCHANGED <<msg, fails>>
             \/ /\ ~IsDir(e)
                /\ todo' = [todo EXCEPT ![t] = todo[t] \ {e}]
                /\ IF KeepsEntry(unwrap_or_0(Blocks(e)), min_blocks)
                   THEN /\ msg' = [msg EXCEPT ![t] = Message("Entry", e)]
                        /\ pc' = [pc EXCEPT ![t] = "send_entry"]
                   ELSE UNCHANGED <<msg, pc>>
                /\ UNCHANGED <<qvars, ret, arg, res, fails>>
    /\ handles' = IF pc'[t] = "send_store" THEN arc_clone(handles, cur[t]) ELSE handles
    /\ UNCHANGED <<guard, hvars, svars, chan, pending, cur,
                   placed, lastPlaced, failPending, owed, roots, submitted, opened,
                   consumed, kvars, fvars, pvars, lvars_h, dying>>

\* process_entry for one entry of the open directory: an invalid entry and a
\* failed metadata call are errors, a directory is sent to dirs_queue, any
\* other entry with more than min_blocks blocks is sent to the channel. The
\* clone of the handle it is called with is moved into the message of a
\* sub-directory (with_parent) and dropped at the return otherwise
process_entry(t) ==
    /\ pc[t] = "entry"
    /\ \E e \in todo[t] :
          /\ todo' = [todo EXCEPT ![t] = todo[t] \ {e}]
          /\ classified' = [classified EXCEPT ![e] = @ + 1]
          /\ \/ /\ fails < MaxFails
                /\ \E kind \in IF IsDir(e) THEN {"ErrEntry"} ELSE {"ErrEntry", "ErrStat"} :
                      /\ MayFail(kind, e)
                      /\ msg' = [msg EXCEPT ![t] = Message(kind, e)]
                /\ fails' = fails + 1
                /\ pc' = [pc EXCEPT ![t] = "send_entry"]
                /\ UNCHANGED <<qvars, ret, arg, res>>
             \/ /\ IsDir(e)
                /\ send_fetch_add(t, Item(TraverseDirectory(e, cur[t]), DirPrio(e)), "entry")
                /\ UNCHANGED <<msg, fails>>
             \/ /\ ~IsDir(e)
                /\ IF KeepsEntry(unwrap_or_0(Blocks(e)), min_blocks)
                   THEN /\ msg' = [msg EXCEPT ![t] = Message("Entry", e)]
                        /\ pc' = [pc EXCEPT ![t] = "send_entry"]
                   ELSE UNCHANGED <<msg, pc>>
                /\ UNCHANGED <<qvars, ret, arg, res, fails>>
    /\ handles' = IF pc'[t] = "send_store" THEN arc_clone(handles, cur[t]) ELSE handles
    /\ UNCHANGED <<guard, hvars, svars, chan, pending, cur,
                   placed, lastPlaced, failPending, owed, roots, submitted, opened,
                   consumed, kvars, fvars, pvars, lvars_h, dying>>

\* the Error records placed in the channel
ErrorsPlaced ==
    placed["ErrOpen"] + placed["ErrList"] + placed["ErrEntry"] + placed["ErrStat"]

\* the records placed in the channel
RecordsPlaced == ErrorsPlaced + placed["Entry"] + placed["Done"]

\* send_entry that does not wait for room in the channel
send_entry_NeverBlocks(t) ==
    /\ pc[t] = "send_entry"
    /\ IF closed
       THEN /\ sendFailed' = [sendFailed EXCEPT ![t] = TRUE]
            /\ UNCHANGED <<chan, placed, lastPlaced, donesAfterLast, failPending>>
       ELSE /\ chan' = Append(chan, [msg[t] EXCEPT !.epoch = nsent,
                                               !.seq = RecordsPlaced + 1])
            /\ placed' = [placed EXCEPT ![msg[t].kind] = @ + 1]
            /\ lastPlaced' = msg[t].kind
            /\ donesAfterLast' = donesAfterLast + (IF msg[t].kind = "Done" THEN 1 ELSE 0)
            /\ failPending' = CASE msg[t].kind = "ErrOpen" -> TRUE
                                 [] msg[t].kind = "Done"    -> FALSE
                                 [] OTHER                   -> failPending
            /\ UNCHANGED sendFailed
    /\ pending' = (pending + 1) % UsizeMod
    /\ msg' = [msg EXCEPT ![t] = NoMsg]
    /\ pc' = [pc EXCEPT ![t] = IF cur[t] = NoDir THEN "drop" ELSE "entry"]
    /\ handles' = IF msg[t].kind = "ErrList" THEN arc_drop(handles, msg[t].path)
                                             ELSE handles
    /\ UNCHANGED <<qvars, ret, guard, arg, res, nsent, drainedAfterLast, svars,
                   cur, todo, fails, owed, roots, yvars, closed, fvars, pvars,
                   lvars_h, dying>>

\* send_entry: inventory_send_queue.send(message) blocks while the channel is
\* full and returns an error, which is not looked at, once the Receiver is
\* dropped; then inventory_send_queue_pending.fetch_add(1). After the error of
\* a failed list_self is sent the closure over the opened directory ends and
\* its handle is dropped
send_entry(t) ==
    /\ pc[t] = "send_entry"
    /\ IF closed
       THEN /\ sendFailed' = [sendFailed EXCEPT ![t] = TRUE]
            /\ UNCHANGED <<chan, placed, lastPlaced, donesAfterLast, failPending>>
       ELSE /\ Len(chan) < InventoryBacklog
            /\ chan' = Append(chan, [msg[t] EXCEPT !.epoch = nsent,
                                               !.seq = RecordsPlaced + 1])
            /\ placed' = [placed EXCEPT ![msg[t].kind] = @ + 1]
            /\ lastPlaced' = msg[t].kind
            /\ donesAfterLast' = donesAfterLast + (IF msg[t].kind = "Done" THEN 1 ELSE 0)
            /\ failPending' = CASE msg[t].kind = "ErrOpen" -> TRUE
                                 [] msg[t].kind = "Done"    -> FALSE
                                 [] OTHER                   -> failPending
            /\ UNCHANGED sendFailed
    /\ pending' = (pending + 1) % UsizeMod
    /\ msg' = [msg EXCEPT ![t] = NoMsg]
    /\ pc' = [pc EXCEPT ![t] = IF cur[t] = NoDir THEN "drop" ELSE "entry"]
    /\ handles' = IF msg[t].kind = "ErrList" THEN arc_drop(handles, msg[t].path)
                                             ELSE handles
    /\ UNCHANGED <<qvars, ret, guard, arg, res, nsent, drainedAfterLast, svars,
                   cur, todo, fails, owed, roots, yvars, closed, fvars, pvars,
                   lvars_h, dying>>

\* a worker whose guard never lets go of the parent handle
drop_handles_LeaksParent(t) ==
    /\ handles' = arc_drop(handles, cur[t])
    /\ dying' = dying

\* end of the closure over the opened directory: the worker's own reference
\* to the handle is dropped; then the guard: its item, with the parent_dir, is
\* dropped once ReceiveGuard::drop has returned, at once unless send_drained runs
drop_handles(t) ==
    LET own == arc_drop(handles, cur[t]) IN
    IF in_progress = 1
    THEN /\ handles' = own
         /\ dying' = [dying EXCEPT ![t] = guard[t].k.parent_dir]
    ELSE /\ handles' = arc_drop(own, guard[t].k.parent_dir)
         /\ dying' = dying

\* a worker that lets go of the guard while entries of the directory are left
worker_drop_Early(t) ==
    /\ pc[t] \in {"drop", "entry"}
    /\ drop_fetch_sub(t, "recv")
    /\ cur' = [cur EXCEPT ![t] = NoDir]
    /\ drop_handles(t)
    /\ UNCHANGED <<svars, chan, pending, todo, msg, xvars, yvars, kvars, fvars, pvars,
                   lvars_h>>

\* worker loop, end of the match arm: the directory handle and the
\* ReceiveGuard go out of scope
worker_drop(t) ==
    /\ \/ pc[t] = "drop"
       \/ pc[t] = "entry" /\ todo[t] = {}
    /\ drop_fetch_sub(t, "recv")
    /\ cur' = [cur EXCEPT ![t] = NoDir]
    /\ drop_handles(t)
    /\ UNCHANGED <<svars, chan, pending, todo, msg, xvars, yvars, kvars, fvars, pvars,
                   lvars_h>>

\* the consumer of the channel: receiver.iter(), as in test::load_dir
consume ==
    /\ ~closed
    /\ chan # <<>>
    /\ chan' = Tail(chan)
    /\ pending' = IF Head(chan).kind = "Done" THEN pending ELSE (pending - 1) % UsizeMod
    /\ owed' = (owed /\ ~(Head(chan).kind = "Done" /\ Head(chan).epoch = nsent))
    /\ consumed' = consumed + 1
    /\ UNCHANGED <<qvars, tvars, hvars, svars, cur, todo, msg,
                   placed, lastPlaced, fails, failPending, roots,
                   submitted, opened, classified, kvars, fvars, pvars, lvars>>

\* the consumer drops the Receiver: the channel is closed and the records
\* buffered in it are dropped
close_channel ==
    /\ ~closed
    /\ closed' = TRUE
    /\ chan' = <<>>
    /\ UNCHANGED <<qvars, tvars, hvars, svars, pending, cur, todo, msg, xvars, yvars,
                   sendFailed, fvars, pvars, lvars>>

\* InventoryGatherer::new: the queue, the channel and the worker threads
InitG ==
    /\ InitQueue(Workers \cup {Caller})
    /\ NoLib
    /\ pc = [t \in Workers \cup {Caller} |-> IF t = Caller THEN "idle" ELSE "recv"]
    /\ chan = <<>>
    /\ pending = 0
    /\ cur = [t \in Workers |-> NoDir]
    /\ todo = [t \in Workers |-> {}]
    /\ msg = [t \in Workers |-> NoMsg]
    /\ closed = FALSE
    /\ sendFailed = [t \in Workers |-> FALSE]
    /\ NoFilter
    /\ NoPrio

\* a step of worker t
WorkerStep(t) ==
    \/ worker_recv(t)
    \/ traverse_directory(t)
    \/ drained(t)
    \/ process_entry(t)
    \/ send_entry(t)
    \/ worker_drop(t)
    \/ send_store(t)
    \/ send_push(t)
    \/ send_notify(t)
    \/ send_drained_cas(t)
    \/ send_drained_fetch_add(t)
    \/ send_drained_push(t)
    \/ send_drained_notify(t)

\* the caller inside load_dir_recursive
CallerStep ==
    \/ send_store(Caller)
    \/ send_push(Caller)
    \/ send_notify(Caller)

NextG ==
    \/ \E root \in Roots : load_dir_recursive(root)
    \/ CallerStep
    \/ \E t \in Workers : WorkerStep(t)
    \/ consume

SpecG == InitG /\ [][NextG]_vars

NextGClose ==
    \/ NextG
    \/ close_channel

\* the gatherer with a consumer that may drop the Receiver
SpecGClose == InitG /\ [][NextGClose]_vars

\* the threads are scheduled fairly and the consumer keeps reading
SpecGFair ==
    /\ SpecG
    /\ \A t \in Workers : WF_vars(WorkerStep(t))
    /\ WF_vars(CallerStep)
    /\ WF_vars(consume)

----------------------------------------------------------------------------
(* The block filter on its own, for any metadata and any min_blocks *)

BlockCounts == 0..MaxBlocks

\* the block filter of process_entry applied to one entry's metadata
filter_entry ==
    /\ fout = NotFiltered
    /\ fout' = IF KeepsEntry(unwrap_or_0(fin.blocks), fin.min_blocks)
               THEN [kind |-> "Entry", blocks |-> unwrap_or_0(fin.blocks), by |-> "gatherer"]
               ELSE [kind |-> "dropped", blocks |-> 0, by |-> "gatherer"]
    /\ UNCHANGED <<qvars, tvars, hvars, svars, gvars, xvars, yvars, kvars, fin, pvars, lvars>>

\* the filter of the classifier closure of RmrfdBuilder::start:
\* metadata.size().unwrap_or(0) > self.min_blockcount
classify_entry ==
    /\ fout = NotFiltered
    /\ fout' = IF unwrap_or_0(fin.size) > fin.min_blocks
               THEN [kind |-> "Entry", blocks |-> unwrap_or_0(fin.blocks), by |-> "rmrfd"]
               ELSE [kind |-> "dropped", blocks |-> 0, by |-> "rmrfd"]
    /\ UNCHANGED <<qvars, tvars, hvars, svars, gvars, xvars, yvars, kvars, fin, pvars, lvars>>

\* any metadata of an entry and any configured minimum
InitFilter ==
    /\ InitQueue({})
    /\ NoLib
    /\ pc = <<>>
    /\ NoGatherer
    /\ fin \in [blocks : BlockCounts \cup {NoBlocks},
                size : BlockCounts \cup {NoBlocks},
                min_blocks : BlockCounts]
    /\ fout = NotFiltered
    /\ NoPrio

NextFilter ==
    \/ filter_entry
    \/ classify_entry

SpecFilter == InitFilter /\ [][NextFilter]_vars

----------------------------------------------------------------------------
(* The priority arithmetic on its own, for any depth and any inode *)

\* the values of ino_t, scaled as u64
Inodes == 0..U64Max

\* the priorities process_entry gives two sub-directories, and the priority
\* load_dir_recursive gives a root
compute_prio ==
    /\ pout = NoPriority
    /\ pout' = [p1 |-> dir_prio(pin.d1, pin.i1),
                p2 |-> dir_prio(pin.d2, pin.i2),
                root |-> U64Max,
                overflow |-> (dir_prio_overflows(pin.d1, pin.i1)
                                 \/ dir_prio_overflows(pin.d2, pin.i2)),
                done |-> TRUE]
    /\ UNCHANGED <<qvars, tvars, hvars, svars, gvars, xvars, yvars, kvars, fvars, pin, lvars>>

\* two sub-directories of any depth and any inode
InitPrio ==
    /\ InitQueue({})
    /\ NoLib
    /\ pc = <<>>
    /\ NoGatherer
    /\ NoFilter
    /\ pin \in [d1 : 1..MaxDepth, i1 : Inodes, d2 : 1..MaxDepth, i2 : Inodes]
    /\ pout = NoPriority

NextPrio == compute_prio

SpecPrio == InitPrio /\ [][NextPrio]_vars

----------------------------------------------------------------------------
(* Properties of the concurrent queue *)

\* thread t is handed an entry by recv or try_recv in this step
Delivered(t) == guard[t] = NoGuard /\ guard'[t] # NoGuard

\* no operation is under way, no guard is alive and no Item is queued
Quiet ==
    /\ \A t \in Threads : pc[t] = "idle" /\ guard[t] = NoGuard
    /\ HeapItems(heap) = {}

\* C1: once the guard of the last sent item is destroyed, exactly one Drained
\* marker is emitted, and it is emitted after that destruction: in a quiet
\* state after at least one send, exactly one Drained marker has been handed
\* out since the last Item guard was destroyed or is waiting in the heap.
C1_OneDrainedAfterLastGuard ==
    (Quiet /\ nsent > 0) => drainedAfterLast + CopiesIn(Drained, heap) = 1

\* C2: a Drained marker is handed out only when no Item is in the heap and no
\* guard wrapping an Item is outstanding.
C2_DrainedOnlyWhenNoItems ==
    [][\A t \in Threads :
          (Delivered(t) /\ guard'[t].type = "Drained")
              => /\ HeapItems(heap) = {}
                 /\ \A u \in Threads : guard[u].type # "Item"]_vars

\* C3: when the heap holds an Item together with a Drained marker, recv and
\* try_recv hand out an Item, never the marker.
C3_ItemBeforeDrained ==
    [][\A t \in Threads :
          (Delivered(t) /\ HeapItems(heap) # {} /\ BagIn(Drained, heap))
              => guard'[t].type = "Item"]_vars

\* C5: every Item handed out by recv or try_recv has the smallest priority
\* value among the Items in the heap at the moment it is popped.
C5_SmallestPriorityFirst ==
    [][\A t \in Threads :
          (Delivered(t) /\ guard'[t].type = "Item")
              => \A x \in HeapItems(heap) : guard'[t].p <= x.p]_vars

\* an Item was popped while other entries stayed behind, and a strictly
\* larger Item is still queued
C5_Witness ==
    \E t \in Threads :
        /\ guard[t].type = "Item"
        /\ res[t].ret = "Some" /\ res[t].left >= 1
        /\ \E x \in HeapItems(heap) : x.p > guard[t].p

----------------------------------------------------------------------------
(* Properties of the gatherer *)

\* nothing is left to do: dirs_queue is empty, every worker waits in recv and
\* the caller is outside load_dir_recursive
QuietG ==
    /\ HeapIsEmpty(heap)
    /\ \A t \in Workers : pc[t] \in {"recv", "recv_wait"}
    /\ pc[Caller] = "idle"

\* C7: once a traversal has come to rest, exactly one Done record was placed in
\* the channel since the last directory guard was destroyed; the traversal of
\* an empty root places one Done and no Entry or Error record
C7_OneDonePerTraversal ==
    /\ (QuietG /\ nsent > 0) => donesAfterLast = 1
    /\ (QuietG /\ roots = {"e"} /\ nsent = 1 /\ fails = 0) =>
          placed = [NothingPlaced EXCEPT !["Done"] = 1]

\* C8: once a traversal has come to rest, the last record placed in the
\* channel is its Done: no Entry or Error record is placed after it
C8_RecordsBeforeDone ==
    (QuietG /\ nsent > 0) => lastPlaced = "Done"

\* C9: under fair scheduling and a consumer that keeps reading, every root
\* submitted with load_dir_recursive is followed by a Done record that reaches
\* the consumer, also when open, list_self, readdir or metadata calls fail
C9_DoneEventuallyDelivered == owed ~> ~owed

\* a Done record placed after the last submitted root reached the consumer in a
\* traversal with a failed call
C9_Witness ==
    /\ nsent > 0
    /\ ~owed
    /\ fails > 0
    /\ placed["ErrOpen"] + placed["ErrStat"] > 0

\* C10: a worker whose Dir::open failed holds one Error record for that
\* directory, has no directory handle and no entries to process and sends
\* nothing to dirs_queue; every failed call has produced exactly one Error
\* record when the traversal has come to rest, the workers are back in recv,
\* and a Done record was placed after the Error record of the failed open
C10_OpenFailure ==
    /\ \A t \in Workers :
          (pc[t] \in {"send_entry", "drop"} /\ guard[t].type = "Item" /\ cur[t] = NoDir) =>
             /\ todo[t] = {}
             /\ arg[t] = NoGuard
             /\ pc[t] = "send_entry" => msg[t].kind \in {"ErrOpen", "ErrList"}
    /\ QuietG => ErrorsPlaced = fails
    /\ QuietG => ~failPending

\* C11: a worker sending the Error record of an invalid entry or of a failed
\* metadata call keeps its directory open; when the traversal has come to rest
\* every failed call has produced exactly one Error record and every entry of
\* every listed directory was handed to process_entry, the failed one's
\* siblings included
C11_EntryErrorContinues ==
    /\ \A t \in Workers :
          (pc[t] = "send_entry" /\ msg[t].kind \in {"ErrEntry", "ErrStat"}) =>
              cur[t] # NoDir
    /\ QuietG => ErrorsPlaced = fails
    /\ QuietG => \A p \in Nodes : \A c \in DirEntries(p) : classified[c] = opened[p]

\* the Error record of an entry was sent and the worker is back in the
\* enumeration of the same directory with entries left
C11_Witness ==
    \E t \in Workers :
        /\ pc[t] = "entry"
        /\ cur[t] = "r"
        /\ todo[t] # {}
        /\ lastPlaced \in {"ErrEntry", "ErrStat"}

\* C12: a worker whose send to the channel returned an error because the
\* Receiver was dropped leaves its loop after the current directory: it is not
\* handed a further work item by dirs_queue
C12_WorkerExitsOnClosedChannel ==
    [][\A t \in Workers :
          sendFailed[t] => ~(Delivered(t) /\ guard'[t].type = "Item")]_vars

C14_DroppedIffBelowMinBlocks ==
    (fout # NotFiltered /\ fin.blocks # NoBlocks) =>
        (fout.kind = "dropped" <=> fin.blocks < fin.min_blocks)

\* worker t is handed a root item by dirs_queue in this step
ReceivesRoot(t) ==
    /\ Delivered(t)
    /\ guard'[t].type = "Item"
    /\ guard'[t].k.parent_dir = NoDir

\* C15: a worker is handed a root only when no work item of a traversal in
\* flight is unfinished: no other worker holds the guard of a directory item
\* and no sub-directory item is in dirs_queue or on its way into it
C15_RootWaitsForTraversalInFlight ==
    [][\A t \in Workers :
          ReceivesRoot(t) =>
              /\ \A u \in Workers \ {t} : guard[u].type # "Item" /\ arg[u].type # "Item"
              /\ \A x \in HeapItems(heap) : x.k.parent_dir = NoDir]_vars

\* C16: the priority value of a root is the largest one and the priority
\* value of every sub-directory item, where its sum fits u64, is strictly
\* smaller
C16_SubDirPriorityBelowRoot ==
    (pout.done /\ ~pout.overflow) => (pout.root = U64Max /\ pout.p1 < pout.root)

\* a root is handed out by dirs_queue only when no sub-directory item is in
\* the heap (for the inodes of the trees walked here)
RootDequeuedLast ==
    [][\A t \in Workers :
          ReceivesRoot(t) => \A x \in HeapItems(heap) : x.k.parent_dir = NoDir]_vars

\* C17: of two sub-directory items the one at greater depth has the strictly
\* smaller priority value, and at equal depth the one with the smaller inode
\* has the smaller priority value, for every inode value whose sum fits u64
C17_DeeperThenSmallerInodeFirst ==
    (pout.done /\ ~pout.overflow) =>
        /\ pin.d1 > pin.d2 => pout.p1 < pout.p2
        /\ (pin.d1 = pin.d2 /\ pin.i1 < pin.i2) => pout.p1 < pout.p2

\* the roots and the sub-directories of the trees
SubDirs == {n \in Nodes : IsDir(n)} \ Roots

\* the files of the trees that pass the block filter
QualifyingFiles ==
    {n \in Nodes : ~IsDir(n) /\ KeepsEntry(unwrap_or_0(Blocks(n)), min_blocks)}

RECURSIVE SumOver(_, _)
\* the sum of f[n] over the set S
SumOver(f, S) ==
    IF S = {} THEN 0
    ELSE LET n == CHOOSE n \in S : TRUE IN f[n] + SumOver(f, S \ {n})

\* C18: no directory is opened more often than it was submitted or enqueued, no
\* entry is handed to process_entry more often than its directory was listed
\* and no file yields more Entry records than it was classified; when a
\* traversal without failures has come to rest these counts are equal: every
\* submitted root and every sub-directory was opened once per traversal, every
\* entry classified once and every qualifying file has one Entry record
C18_EachVisitedExactlyOnce ==
    /\ \A r \in Roots : opened[r] <= submitted[r]
    /\ \A d \in SubDirs : opened[d] <= classified[d]
    /\ \A p \in Nodes : \A c \in DirEntries(p) : classified[c] <= opened[p]
    /\ placed["Entry"] <= SumOver(classified, QualifyingFiles)
    /\ (QuietG /\ fails = 0) =>
          /\ \A r \in Roots : opened[r] = submitted[r]
          /\ \A d \in SubDirs : opened[d] = classified[d]
          /\ \A p \in Nodes : \A c \in DirEntries(p) : classified[c] = opened[p]
          /\ placed["Entry"] = SumOver(classified, QualifyingFiles)

\* the tree under r was walked once, without failures, and has come to rest
C18_Witness ==
    /\ QuietG
    /\ fails = 0
    /\ submitted["r"] = 1
    /\ opened["r"] = 1 /\ opened["d"] = 1
    /\ classified["f"] = 1 /\ classified["g"] = 1
    /\ placed["Entry"] = 1

C20_NoLostWakeup ==
    /\ [][\A t \in Threads : Delivered(t) => BagIn(guard'[t], heap)]_vars
    /\ (~HeapIsEmpty(heap)) ~> HeapIsEmpty(heap)

\* an entry is in the heap while every worker is blocked in recv
C20_Witness ==
    /\ ~HeapIsEmpty(heap)
    /\ \A t \in Workers : pc[t] = "recv_wait"

----------------------------------------------------------------------------
(* ObjectPath: a node is a name and an optional shared parent node. A node *)
(* is an index into onodes, so that two nodes with equal contents and *)
(* different parents (no sharing) are different nodes *)

\* the bytes names are made of, with their values
Bytes == {".", "/", "a", "b"}

ByteValue(c) == CASE c = "." -> 46 [] c = "/" -> 47 [] c = "a" -> 97 [] c = "b" -> 98

RECURSIVE NameCmp(_, _)
\* Ord of a name (derived on the shared OsString): byte-wise lexicographic
NameCmp(a, b) ==
    IF a = <<>> /\ b = <<>> THEN "Equal"
    ELSE IF a = <<>> THEN "Less"
    ELSE IF b = <<>> THEN "Greater"
    ELSE IF Head(a) # Head(b) THEN IntCmp(ByteValue(Head(a)), ByteValue(Head(b)))
    ELSE NameCmp(Tail(a), Tail(b))

\* parent: None
NoParent == 0

\* ObjectPath { parent, name }
ObjectPathNode(parent, name) == [parent |-> parent, name |-> name]

RECURSIVE ObjectPathCmp(_, _)
\* #[derive(PartialOrd, Ord)] on ObjectPath: the fields in declaration order,
\* parent (None before Some, Some by the nodes pointed to) and then name
ObjectPathCmp(i, j) ==
    LET pi == onodes[i].parent
        pj == onodes[j].parent
        r  == IF pi = NoParent /\ pj = NoParent THEN "Equal"
              ELSE IF pi = NoParent THEN "Less"
              ELSE IF pj = NoParent THEN "Greater"
              ELSE ObjectPathCmp(pi, pj)
    IN  IF r # "Equal" THEN r ELSE NameCmp(onodes[i].name, onodes[j].name)

RECURSIVE ObjectPathEq(_, _)
\* #[derive(PartialEq)] on ObjectPath: parent == parent && name == name
ObjectPathEq(i, j) ==
    LET pi == onodes[i].parent
        pj == onodes[j].parent
    IN  /\ \/ pi = NoParent /\ pj = NoParent
           \/ pi # NoParent /\ pj # NoParent /\ ObjectPathEq(pi, pj)
        /\ onodes[i].name = onodes[j].name

RECURSIVE NameSeq(_)
\* the names of a node from the root to the node itself
NameSeq(i) ==
    IF onodes[i].parent = NoParent THEN <<onodes[i].name>>
    ELSE Append(NameSeq(onodes[i].parent), onodes[i].name)

\* the names used by the fixtures
NameA == <<"a">>
NameB == <<"b">>

\* a fixed set of nodes: the roots b and a, a/b, a/a, b/a, a second root a
\* that shares nothing with the first, and a/b below that second root
FixtureNodes ==
    << ObjectPathNode(NoParent, NameB),
       ObjectPathNode(NoParent, NameA),
       ObjectPathNode(2, NameB),
       ObjectPathNode(2, NameA),
       ObjectPathNode(1, NameA),
       ObjectPathNode(NoParent, NameA),
       ObjectPathNode(6, NameB) >>

----------------------------------------------------------------------------
(* Building ObjectPath nodes and materialising them into a PathBuf *)

\* no queue and no gatherer: the data model on its own
NoQueue ==
    /\ InitQueue({})
    /\ pc = <<>>
    /\ NoGatherer
    /\ NoFilter
    /\ NoPrio

\* the paths given to ObjectPath::new
RootNames == {<<".">>, <<"/">>, <<"/", "a">>, <<"a">>}

\* the names of directory entries: no separator, not empty
EntryNames == {NameA, NameB}

\* what a caller may have left in the buffer it hands to write_pathbuf
PrevContents == {<<"b">>, <<"/", "b">>}

\* ObjectPath::new
ObjectPath_new(path) ==
    /\ Len(onodes) < MaxNodes
    /\ onodes' = Append(onodes, ObjectPathNode(NoParent, path))
    /\ UNCHANGED <<basevars, ivars, but_ovars, target, written>>

\* ObjectPath::subobject
subobject(parent, name) ==
    /\ Len(onodes) < MaxNodes
    /\ onodes' = Append(onodes, ObjectPathNode(parent, name))
    /\ UNCHANGED <<basevars, ivars, but_ovars, target, written>>

\* PathBuf::push on unix: an absolute path replaces the buffer, otherwise a
\* separator is added unless the buffer is empty or ends with one
PathBufPush(buf, path) ==
    LET need_sep == buf # <<>> /\ buf[Len(buf)] # "/"
        absolute == path # <<>> /\ path[1] = "/"
    IN  IF absolute THEN path
        ELSE IF need_sep THEN buf \o <<"/">> \o path
        ELSE buf \o path

RECURSIVE pathbuf_push_parents(_, _)
\* ObjectPath::pathbuf_push_parents: the parents first, then the own name
\* (target.reserve changes the capacity only)
pathbuf_push_parents(i, buf) ==
    IF onodes[i].parent # NoParent
    THEN PathBufPush(pathbuf_push_parents(onodes[i].parent, buf), onodes[i].name)
    ELSE PathBufPush(buf, onodes[i].name)

\* the caller uses its buffer for something else
use_buffer(c) ==
    /\ target' = c
    /\ UNCHANGED <<basevars, ivars, but_ovars, onodes, written>>

\* a write_pathbuf that does not clear the buffer
write_pathbuf_NoClear(i) ==
    /\ target' = pathbuf_push_parents(i, target)
    /\ written' = [node |-> i, by |-> "write_pathbuf", before |-> target, out |-> target']
    /\ UNCHANGED <<basevars, ivars, but_ovars, onodes>>

\* ObjectPath::write_pathbuf: target.clear(), then pathbuf_push_parents
write_pathbuf(i) ==
    /\ target' = pathbuf_push_parents(i, <<>>)
    /\ written' = [node |-> i, by |-> "write_pathbuf", before |-> target, out |-> target']
    /\ UNCHANGED <<basevars, ivars, but_ovars, onodes>>

\* ObjectPath::to_pathbuf: PathBuf::new(), then pathbuf_push_parents
to_pathbuf(i) ==
    /\ written' = [node |-> i, by |-> "to_pathbuf", before |-> <<>>,
                   out |-> pathbuf_push_parents(i, <<>>)]
    /\ UNCHANGED <<basevars, ivars, but_ovars, onodes, target>>

InitPath ==
    /\ NoQueue
    /\ NoLib

NextPath ==
    \/ \E r \in RootNames : ObjectPath_new(r)
    \/ \E i \in 1..Len(onodes), n \in EntryNames : subobject(i, n)
    \/ \E c \in PrevContents : use_buffer(c)
    \/ \E i \in 1..Len(onodes) : write_pathbuf(i)
    \/ \E i \in 1..Len(onodes) : to_pathbuf(i)

SpecPath == InitPath /\ [][NextPath]_vars

----------------------------------------------------------------------------
(* The pool of interned names: a set of shared handles keyed by their bytes. *)
(* A handle is an allocation (its identity is the number of the allocation) *)
(* holding the bytes of a name *)

InternWorkers == 1..NInternWorkers

\* the names workers meet more than once
InternNames == {NameA, NameB, <<"a", "b">>}

\* CachedName(Arc::new(OsString::from(name))): allocation number id
CachedName(id, bytes) == [id |-> id, bytes |-> bytes]

\* HashSet::get with a name: the handles of the pool equal to it (Hash, Eq and
\* Borrow<OsStr> of a handle go by its bytes)
PoolGet(pool, name) == {h \in pool : h.bytes = name}

\* a cache_name that hands out a new allocation on every call
cache_name_AlwaysAllocates(pool, n, name) ==
    LET h == CachedName(n + 1, name)
    IN  [pool |-> IF PoolGet(pool, name) # {} THEN pool ELSE pool \cup {h},
         n |-> n + 1, handle |-> h]

\* Inventory::cache_name: cached_names.get_or_insert_with(name, ..).clone()
\* on pool with n allocations made: the pool and the count afterwards, and the
\* handle returned
cache_name(pool, n, name) ==
    IF PoolGet(pool, name) # {}
    THEN [pool |-> pool, n |-> n, handle |-> CHOOSE h \in PoolGet(pool, name) : TRUE]
    ELSE LET h == CachedName(n + 1, name)
         IN  [pool |-> pool \cup {h}, n |-> n + 1, handle |-> h]

\* names.interning(name), first step: worker t takes the mutex of the pool
interning_lock(t, name) ==
    /\ ipc[t] = NoName
    /\ names_lock = 0
    /\ Len(interned) + Cardinality({w \in InternWorkers : ipc[w] # NoName}) < MaxInterns
    /\ names_lock' = t
    /\ ipc' = [ipc EXCEPT ![t] = name]
    /\ UNCHANGED <<basevars, ivars, but_mvars, cached_names, nalloc, interned>>

\* names.interning(name), second step: look the name up or insert it, release
\* the mutex and return the handle
interning(t) ==
    /\ names_lock = t
    /\ LET r == cache_name(cached_names, nalloc, ipc[t])
       IN  /\ cached_names' = r.pool
           /\ nalloc' = r.n
           /\ interned' = Append(interned, [name |-> ipc[t], handle |-> r.handle, by |-> t])
    /\ names_lock' = 0
    /\ ipc' = [ipc EXCEPT ![t] = NoName]
    /\ UNCHANGED <<basevars, ivars, but_mvars>>

\* an empty pool and idle workers
InitIntern ==
    /\ NoQueue
    /\ NoObjects
    /\ NoInventory
    /\ NoObjectList
    /\ NoBuilder
    /\ cached_names = {}
    /\ nalloc = 0
    /\ interned = <<>>
    /\ ipc = [t \in InternWorkers |-> NoName]
    /\ names_lock = 0

NextIntern ==
    \/ \E t \in InternWorkers, name \in InternNames : interning_lock(t, name)
    \/ \E t \in InternWorkers : interning(t)

SpecIntern == InitIntern /\ [][NextIntern]_vars

----------------------------------------------------------------------------
(* RmrfdBuilder: every configuration method takes the builder by value and *)
(* returns it; start consumes it *)

\* the default of min_blockcount
default_min_blockcount == 64

\* the arguments of the with_.. calls; 0 stands for the default of the
\* GathererBuilder
ConfigArgs == 1..MaxConfig

\* the directories given to add_dir
RmrfDirs == {"x", "y"}

\* impl Default for RmrfdBuilder
RmrfdBuilder_default ==
    [state |-> "building",
     inventory_backlog |-> 0, gather_threads |-> 0, output_channels |-> 0,
     min_blockcount |-> default_min_blockcount,
     rmrf_dirs |-> {},
     rmrf_armed |-> FALSE,
     armed_at_start |-> FALSE]

\* a configuration call was made: what is left unchanged
Configured(name, a) ==
    /\ builder.state = "building"
    /\ last_call' = [name |-> name, arg |-> a]
    /\ UNCHANGED <<basevars, ivars, but_bvars>>

\* RmrfdBuilder::with_inventory_backlog
with_inventory_backlog(n) ==
    /\ Configured("with_inventory_backlog", n)
    /\ builder' = [builder EXCEPT !.rmrf_armed = FALSE, !.inventory_backlog = n]

\* RmrfdBuilder::with_gather_threads
with_gather_threads(n) ==
    /\ Configured("with_gather_threads", n)
    /\ builder' = [builder EXCEPT !.rmrf_armed = FALSE, !.gather_threads = n]

\* RmrfdBuilder::with_inventory_threads
with_inventory_threads(n) ==
    /\ Configured("with_inventory_threads", n)
    /\ builder' = [builder EXCEPT !.rmrf_armed = FALSE, !.output_channels = n]

\* a with_min_blockcount that leaves the switch alone
with_min_blockcount_KeepsArmed(c) ==
    /\ Configured("with_min_blockcount", c)
    /\ builder' = [builder EXCEPT !.min_blockcount = c]

\* RmrfdBuilder::with_min_blockcount
with_min_blockcount(c) ==
    /\ Configured("with_min_blockcount", c)
    /\ builder' = [builder EXCEPT !.rmrf_armed = FALSE, !.min_blockcount = c]

\* RmrfdBuilder::arm; the state is recorded as 1 for true and 0 for false
arm(state) ==
    /\ Configured("arm", IF state THEN 1 ELSE 0)
    /\ builder' = [builder EXCEPT !.rmrf_armed = state]

\* RmrfdBuilder::add_dir: ok is whether canonicalize, is_dir and metadata all
\* succeed; on an error the builder is dropped with the Err
add_dir(dir, ok) ==
    /\ Configured("add_dir", 0)
    /\ builder' = IF ok
                  THEN [builder EXCEPT !.rmrf_armed = FALSE,
                                       !.rmrf_dirs = @ \cup {dir}]
                  ELSE [builder EXCEPT !.rmrf_armed = FALSE, !.state = "dropped"]

\* RmrfdBuilder::start: info!("armed: {}", self.rmrf_armed), then the gatherer
\* is started, which may fail
start(ok) ==
    /\ builder.state = "building"
    /\ builder' = [builder EXCEPT !.state = IF ok THEN "started" ELSE "start_failed",
                                  !.armed_at_start = builder.rmrf_armed]
    /\ UNCHANGED <<basevars, ivars, but_bvars, last_call>>

\* Rmrfd::build()
InitBuilder ==
    /\ NoQueue
    /\ NoObjects
    /\ NoInventory
    /\ NoObjectList
    /\ NoNames
    /\ builder = RmrfdBuilder_default
    /\ last_call = NoCall

NextBuilder ==
    \/ \E n \in ConfigArgs : with_inventory_backlog(n)
    \/ \E n \in ConfigArgs : with_gather_threads(n)
    \/ \E n \in ConfigArgs : with_inventory_threads(n)
    \/ \E c \in ConfigArgs : with_min_blockcount(c)
    \/ \E state \in BOOLEAN : arm(state)
    \/ \E dir \in RmrfDirs, ok \in BOOLEAN : add_dir(dir, ok)
    \/ \E ok \in BOOLEAN : start(ok)

SpecBuilder == InitBuilder /\ [][NextBuilder]_vars

----------------------------------------------------------------------------
(* Inventory of the experiment: device -> BTreeMap<InventoryKey, ObjectList> *)

\* InventoryKey::new
InventoryKey(blocks, ino) == [blocks |-> blocks, ino |-> ino]

\* a comparison that looks at the block count alone
InventoryKeyCmp_BlocksOnly(a, b) == IntCmp(a.blocks, b.blocks)

\* impl Ord for InventoryKey
InventoryKeyCmp(a, b) ==
    LET r == IntCmp(a.blocks, b.blocks)
    IN  IF r = "Equal" THEN IntCmp(a.ino, b.ino) ELSE r

\* impl PartialEq for InventoryKey
InventoryKeyEq(a, b) == a.blocks = b.blocks /\ a.ino = b.ino

\* enum ObjectList of the experiment
ObjectListEmpty == [tag |-> "Empty", vec |-> <<>>]
ObjectListOne(first) == [tag |-> "One", vec |-> <<first>>]
ObjectListMany(vec) == [tag |-> "Many", vec |-> vec]

\* ObjectList::add_object
add_object(l, path) ==
    CASE l.tag = "Empty" -> ObjectListOne(path)
      [] l.tag = "One"   -> ObjectListMany(Append(<<l.vec[1]>>, path))
      [] l.tag = "Many"  -> ObjectListMany(Append(l.vec, path))

RECURSIVE BTreeSearch(_, _, _)
\* the search of an ordered map m (its entries in ascending key order) for
\* key, from position i on: where the key is, or where it has to go
BTreeSearch(m, key, i) ==
    IF i > Len(m) THEN [found |-> FALSE, idx |-> i]
    ELSE LET c == InventoryKeyCmp(key, m[i].key)
         IN  IF c = "Equal" THEN [found |-> TRUE, idx |-> i]
             ELSE IF c = "Less" THEN [found |-> FALSE, idx |-> i]
             ELSE BTreeSearch(m, key, i + 1)

\* m.entry(key).or_default().add_object(path)
BTreeAdd(m, key, path) ==
    LET f == BTreeSearch(m, key, 1)
    IN  IF f.found
        THEN [m EXCEPT ![f.idx].list = add_object(@, path)]
        ELSE SubSeq(m, 1, f.idx - 1)
                 \o <<[key |-> key, list |-> add_object(ObjectListEmpty, path)]>>
                 \o SubSeq(m, f.idx, Len(m))

\* the devices, block counts and inodes the walked trees have
Devs == 1..2
InvBlocks == 0..MaxInvBlocks
InvInodes == 1..MaxInvInode

\* the paths the walk reports: a/b, a/a and a/b below the unshared root
InvPaths == {3, 4, 7}

\* the map of a device; HashMap::entry(dev).or_default() on a new device
DevMap(e, dev) == IF dev \in DOMAIN e THEN e[dev] ELSE <<>>

\* an inventory keyed without the device: every entry goes to one map
inventory_add_IgnoresDevice(dev, blocks, ino, path) ==
    /\ Len(reported) < MaxReports
    /\ reported' = Append(reported, [dev |-> dev, blocks |-> blocks, ino |-> ino, path |-> path])
    /\ IF blocks > 0
       THEN entries' = [d \in DOMAIN entries \cup {1} |->
                           IF d = 1
                           THEN BTreeAdd(DevMap(entries, 1), InventoryKey(blocks, ino), path)
                           ELSE entries[d]]
       ELSE entries' = entries
    /\ UNCHANGED <<basevars, ivars, but_nvars>>

\* load_dir_recursive_intern, for an entry that is not a directory:
\* if metadata.blocks() > 0 the path is added under its device and key
inventory_add(dev, blocks, ino, path) ==
    /\ Len(reported) < MaxReports
    /\ reported' = Append(reported, [dev |-> dev, blocks |-> blocks, ino |-> ino, path |-> path])
    /\ IF blocks > 0
       THEN entries' = [d \in DOMAIN entries \cup {dev} |->
                           IF d = dev
                           THEN BTreeAdd(DevMap(entries, dev), InventoryKey(blocks, ino), path)
                           ELSE entries[d]]
       ELSE entries' = entries
    /\ UNCHANGED <<basevars, ivars, but_nvars>>

\* Inventory::new, and the nodes of the walked trees
InitInv ==
    /\ NoQueue
    /\ onodes = FixtureNodes
    /\ NoPathBuf
    /\ NoInventory
    /\ NoObjectList
    /\ NoNames
    /\ NoBuilder

NextInv ==
    \E dev \in Devs, blocks \in InvBlocks, ino \in InvInodes, path \in InvPaths :
        inventory_add(dev, blocks, ino, path)

SpecInv == InitInv /\ [][NextInv]_vars

----------------------------------------------------------------------------
(* ObjectList of the library: a sorted Vec of unique nodes *)

RECURSIVE binary_search(_, _, _, _)
\* slice::binary_search for x in v between left and right: Ok(idx) of a
\* match, or Err(idx) where x can be inserted
binary_search(v, x, left, right) ==
    IF left >= right THEN [ok |-> FALSE, idx |-> left]
    ELSE LET mid == left + (right - left) \div 2
             c   == ObjectPathCmp(v[mid + 1], x)
         IN  IF c = "Equal" THEN [ok |-> TRUE, idx |-> mid]
             ELSE IF c = "Less" THEN binary_search(v, x, mid + 1, right)
             ELSE binary_search(v, x, left, mid)

\* Vec::insert(idx, x), idx counted from 0
VecInsert(v, idx, x) == SubSeq(v, 1, idx) \o <<x>> \o SubSeq(v, idx + 1, Len(v))

\* Vec::remove(idx), idx counted from 0
VecRemove(v, idx) == SubSeq(v, 1, idx) \o SubSeq(v, idx + 2, Len(v))

\* the nodes handed to the ObjectList
ListPaths == 1..Len(FixtureNodes)

\* an insert that appends without searching
insert_NoSearch(object) ==
    /\ olist' = Append(olist, object)
    /\ present' = present \cup {NameSeq(object)}
    /\ UNCHANGED <<basevars, ivars, but_uvars, ofound>>

\* ObjectList::insert
insert(object) ==
    /\ LET r == binary_search(olist, object, 0, Len(olist))
       IN  olist' = IF r.ok THEN olist ELSE VecInsert(olist, r.idx, object)
    /\ present' = present \cup {NameSeq(object)}
    /\ UNCHANGED <<basevars, ivars, but_uvars, ofound>>

\* ObjectList::remove
remove(object) ==
    /\ LET r == binary_search(olist, object, 0, Len(olist))
       IN  olist' = IF r.ok THEN VecRemove(olist, r.idx) ELSE olist
    /\ present' = present \ {NameSeq(object)}
    /\ UNCHANGED <<basevars, ivars, but_uvars, ofound>>

\* ObjectList::contains
contains(object) ==
    /\ ofound' = [path |-> object,
                  result |-> binary_search(olist, object, 0, Len(olist)).ok]
    /\ UNCHANGED <<basevars, ivars, but_uvars, olist, present>>

\* ObjectList::new, and the nodes that exist
InitList ==
    /\ NoQueue
    /\ onodes = FixtureNodes
    /\ NoPathBuf
    /\ NoInventory
    /\ NoObjectList
    /\ NoNames
    /\ NoBuilder

NextList ==
    \/ \E p \in ListPaths : insert(p)
    \/ \E p \in ListPaths : remove(p)
    \/ \E p \in ListPaths : contains(p)

SpecList == InitList /\ [][NextList]_vars

----------------------------------------------------------------------------
(* try_recv and into_item *)

\* C21: try_recv returns None only when the queue holds no entry: whenever an
\* entry is queued it returns a guard for it, also while other threads are
\* executing send, recv or try_recv.
C21_TryRecvNoneOnlyWhenEmpty ==
    [][\A t \in Threads :
          (res'[t].ret = "None" /\ res[t].ret # "None") => HeapIsEmpty(heap)]_vars

\* thread t takes the entry out of its guard in this step
TakesItem(t) == item[t] = NoGuard /\ item'[t] # NoGuard

\* into_item returns the entry its guard wrapped and runs the guard's
\* bookkeeping once: one decrement of in_progress at the call, none while the
\* call is completing, and send_drained entered exactly on the 1-to-0 transition
IntoItemBookkeeping ==
    /\ [][\A t \in Threads :
             TakesItem(t) =>
                 /\ item'[t] = guard[t]
                 /\ guard[t].type \in {"Item", "Drained"}
                 /\ guard'[t] = NoGuard
                 /\ in_progress' = (in_progress - 1) % UsizeMod
                 /\ pc'[t] = IF in_progress = 1 THEN "send_drained_cas"
                                                ELSE "got_item"]_vars
    /\ [][\A t \in Threads :
             (item[t] # NoGuard /\ pc'[t] # pc[t]) =>
                 /\ in_progress' \in {in_progress, (in_progress + 1) % UsizeMod}
                 /\ item'[t] \in {item[t], NoGuard}]_vars

\* C22 as stated: into_item returns the entry the guard wrapped, in_progress
\* is decremented by exactly one, and a Drained marker is injected if that
\* decrement was the 1-to-0 transition.
C22_IntoItemInjectsDrained ==
    /\ IntoItemBookkeeping
    /\ [][\A t \in Threads :
             (item[t] # NoGuard /\ pc[t] = "send_drained_cas" /\ pc'[t] # pc[t])
                 => pc'[t] = "send_drained_fetch_add"]_vars

\* C22 amended: into_item returns the entry the guard wrapped, in_progress is
\* decremented by exactly one, and on the 1-to-0 transition send_drained
\* runs: it injects a Drained marker when is_drained was false and injects
\* nothing when is_drained was already true.
C22_IntoItemRunsDrop ==
    /\ IntoItemBookkeeping
    /\ [][\A t \in Threads :
             (item[t] # NoGuard /\ pc[t] = "send_drained_cas" /\ pc'[t] # pc[t])
                 => /\ is_drained = FALSE => pc'[t] = "send_drained_fetch_add"
                    /\ is_drained = TRUE => (pc'[t] = "got_item" /\ heap' = heap)]_vars
    /\ [][\A t \in Threads :
             (item[t] # NoGuard /\ pc[t] = "send_drained_push" /\ pc'[t] # pc[t])
                 => heap' = heap (+) SetToBag({Drained})]_vars

\* into_item took the last Item out of its guard and the Drained marker it
\* injected is in the heap
C22_Witness ==
    \E t \in Threads :
        /\ item[t].type = "Item"
        /\ pc[t] = "send_drained_notify"
        /\ BagIn(Drained, heap)

----------------------------------------------------------------------------
(* Properties of the inventory *)

\* the paths of an object list
ObjectListPaths(l) == {l.vec[i] : i \in 1..Len(l.vec)}

\* the reports that passed the block filter
Stored == {i \in 1..Len(reported) : reported[i].blocks > 0}

\* the entries of the map of device dev whose key is (blocks, ino)
KeysAt(dev, blocks, ino) ==
    IF dev \in DOMAIN entries
    THEN {k \in 1..Len(entries[dev]) :
             InventoryKeyEq(entries[dev][k].key, InventoryKey(blocks, ino))}
    ELSE {}

\* C23: two distinct paths reported with the same (device, blocks, inode) are
\* stored in one object list under one key of that device's map, and that list
\* contains both paths; entries with the same (blocks, inode) on different
\* devices are never put in the same list: a list of a device holds only paths
\* reported with that device and that key.
C23_AliasesShareOneList ==
    /\ \A i \in Stored, j \in Stored :
           (/\ reported[i].path # reported[j].path
            /\ reported[i].dev = reported[j].dev
            /\ reported[i].blocks = reported[j].blocks
            /\ reported[i].ino = reported[j].ino)
           => LET ks == KeysAt(reported[i].dev, reported[i].blocks, reported[i].ino)
              IN  /\ Cardinality(ks) = 1
                  /\ \A k \in ks :
                         {reported[i].path, reported[j].path}
                             \subseteq ObjectListPaths(entries[reported[i].dev][k].list)
    /\ \A dev \in DOMAIN entries : \A k \in 1..Len(entries[dev]) :
           \A p \in ObjectListPaths(entries[dev][k].list) :
               \E i \in Stored :
                   /\ reported[i].dev = dev
                   /\ InventoryKeyEq(InventoryKey(reported[i].blocks, reported[i].ino),
                                     entries[dev][k].key)
                   /\ reported[i].path = p

\* two distinct paths were reported with one (device, blocks, inode), and a
\* third entry with the same (blocks, inode) on the other device
C23_Witness ==
    \E i \in Stored, j \in Stored, k \in Stored :
        /\ reported[i].path # reported[j].path
        /\ reported[i].dev = reported[j].dev /\ reported[k].dev # reported[i].dev
        /\ \A x \in {j, k} : reported[x].blocks = reported[i].blocks
                               /\ reported[x].ino = reported[i].ino
        /\ Cardinality(DOMAIN entries) = 2

\* C24: inserting the same path more than once under the same (device,
\* blocks, inode) leaves a single occurrence of that path in the object list,
\* and the list stays sorted after every insert: every object list is strictly
\* ascending in the order of ObjectPath.
C24_ListSortedAndUnique ==
    \A dev \in DOMAIN entries : \A k \in 1..Len(entries[dev]) :
        LET v == entries[dev][k].list.vec
        IN  \A a \in 1..Len(v), b \in 1..Len(v) :
                a < b => ObjectPathCmp(v[a], v[b]) = "Less"

----------------------------------------------------------------------------
(* Properties of the ObjectList *)

\* C25: after any sequence of insert and remove calls an ObjectList is
\* strictly ascending with no duplicates, len equals the number of distinct
\* paths inserted and not removed, and contains(p) is true exactly for those
\* paths.
C25_ObjectListSortedSet ==
    /\ [](\A a \in 1..Len(olist), b \in 1..Len(olist) :
             a < b => ObjectPathCmp(olist[a], olist[b]) = "Less")
    /\ [](Len(olist) = Cardinality(present))
    /\ []({NameSeq(olist[a]) : a \in 1..Len(olist)} = present)
    /\ [][ofound' # ofound =>
             (ofound'.result <=> NameSeq(ofound'.path) \in present)]_vars

\* the list holds three paths after a path was inserted a second time through
\* a node that shares no parent with the first, and after a removal; a
\* contains call found a path through such a node
C25_Witness ==
    /\ Len(olist) = 3
    /\ \E a \in 1..Len(olist) : olist[a] = 7
    /\ NameSeq(1) \notin present
    /\ ofound = [path |-> 3, result |-> TRUE]

----------------------------------------------------------------------------
(* Properties of ObjectPath *)

RECURSIVE LexCmp(_, _)
\* the lexicographic order of two sequences of names
LexCmp(s, t) ==
    IF s = <<>> /\ t = <<>> THEN "Equal"
    ELSE IF s = <<>> THEN "Less"
    ELSE IF t = <<>> THEN "Greater"
    ELSE LET c == NameCmp(Head(s), Head(t))
         IN  IF c # "Equal" THEN c ELSE LexCmp(Tail(s), Tail(t))

\* C26: the total order on ObjectPath nodes equals the lexicographic order of
\* their name sequences from root to leaf, for nodes of equal and of different
\* depth, and two nodes compare equal exactly when their name sequences are
\* equal, whether or not their parent nodes are shared.
C26_OrderIsLexicographic ==
    \A i \in 1..Len(onodes), j \in 1..Len(onodes) :
        /\ ObjectPathCmp(i, j) = LexCmp(NameSeq(i), NameSeq(j))
        /\ ObjectPathEq(i, j) <=> NameSeq(i) = NameSeq(j)
        /\ ObjectPathCmp(i, j) = "Equal" <=> NameSeq(i) = NameSeq(j)

RECURSIVE JoinNames(_)
\* r/n_1/.../n_k: the names of a sequence joined by the separator
JoinNames(s) ==
    IF Len(s) = 1 THEN s[1]
    ELSE JoinNames(SubSeq(s, 1, Len(s) - 1)) \o <<"/">> \o s[Len(s)]

RECURSIVE Segments(_, _, _)
\* the segments of path p between separators, the empty ones left out; seg is
\* the segment being read and acc the segments read
Segments(p, seg, acc) ==
    LET done == IF seg = <<>> THEN acc ELSE Append(acc, seg)
    IN  IF p = <<>> THEN done
        ELSE IF Head(p) = "/" THEN Segments(Tail(p), <<>>, done)
        ELSE Segments(Tail(p), Append(seg, Head(p)), acc)

\* two byte strings are the same path: both absolute or both relative, and
\* the same segments (repeated separators do not count)
SamePath(p, q) ==
    /\ (p # <<>> /\ p[1] = "/") <=> (q # <<>> /\ q[1] = "/")
    /\ Segments(p, <<>>, <<>>) = Segments(q, <<>>, <<>>)

\* C27: for a node built as a root r followed by k subobject calls with names
\* n_1..n_k, to_pathbuf and write_pathbuf both yield the path r/n_1/.../n_k
\* (byte for byte when r does not end with the separator, which is not
\* doubled), and the result of write_pathbuf does not depend on the previous
\* contents of the supplied buffer.
C27_MaterialisedPath ==
    written # NotWritten =>
        LET names == NameSeq(written.node)
            root  == names[1]
        IN  /\ SamePath(written.out, JoinNames(names))
            /\ root[Len(root)] # "/" => written.out = JoinNames(names)
            /\ (root[Len(root)] = "/" /\ Len(names) > 1)
                   => written.out = root \o JoinNames(Tail(names))

\* write_pathbuf materialised a node two levels below its root into a buffer
\* that held something else
C27_Witness ==
    /\ written.by = "write_pathbuf"
    /\ written.before \in PrevContents
    /\ Len(NameSeq(written.node)) = 3

----------------------------------------------------------------------------
(* Properties of the pool of names *)

\* the names of the intern calls that returned
NamesSeen == {interned[i].name : i \in 1..Len(interned)}

\* C28: after any sequence of intern calls, also concurrent ones from several
\* workers, intern(a) and intern(b) return the identical handle if and only if
\* a = b, and the pool holds exactly one handle per distinct name seen.
C28_InternIdentity ==
    /\ \A i \in 1..Len(interned), j \in 1..Len(interned) :
           interned[i].handle.id = interned[j].handle.id
               <=> interned[i].name = interned[j].name
    /\ \A i \in 1..Len(interned) : interned[i].handle.bytes = interned[i].name
    /\ Cardinality(cached_names) = Cardinality(NamesSeen)
    /\ {h.bytes : h \in cached_names} = NamesSeen

\* both workers interned one name, another name was interned between their
\* calls, and a third call is under way
C28_Witness ==
    /\ Len(interned) = 3
    /\ interned[1].name = interned[3].name
    /\ interned[1].by # interned[3].by
    /\ interned[2].name # interned[1].name
    /\ names_lock # 0

----------------------------------------------------------------------------
(* Properties of InventoryKey and the ordered map *)

\* reverse iteration of an ordered map: its entries from the last to the first
RevIter(m) == [i \in 1..Len(m) |-> m[Len(m) + 1 - i]]

\* key a comes before key b in descending lexicographic (blocks, inode) order
KeyAbove(a, b) ==
    \/ a.blocks > b.blocks
    \/ a.blocks = b.blocks /\ a.ino > b.ino

\* the key of a reported entry
ReportedKey(i) == InventoryKey(reported[i].blocks, reported[i].ino)

\* C29: within one device, reverse iteration of the ordered map yields the
\* keys stored for that device in descending lexicographic (blocks, inode)
\* order, largest block count first and equal block counts ordered by inode;
\* the comparison on InventoryKey is a total order whose Equal result
\* coincides with key equality.
C29_KeysDescendTotalOrder ==
    /\ \A dev \in DOMAIN entries :
           LET r == RevIter(entries[dev])
           IN  /\ \A a \in 1..Len(r), b \in 1..Len(r) :
                      a < b => KeyAbove(r[a].key, r[b].key)
               /\ {r[a].key : a \in 1..Len(r)}
                      = {ReportedKey(i) : i \in {x \in Stored : reported[x].dev = dev}}
    /\ \A i \in 1..Len(reported), j \in 1..Len(reported), k \in 1..Len(reported) :
           LET ki == ReportedKey(i)
               kj == ReportedKey(j)
               kk == ReportedKey(k)
           IN  /\ InventoryKeyCmp(ki, kj) \in {"Less", "Equal", "Greater"}
               /\ InventoryKeyCmp(ki, kj) = "Equal" <=> InventoryKeyEq(ki, kj)
               /\ InventoryKeyEq(ki, kj) <=> ki = kj
               /\ InventoryKeyCmp(ki, kj) = "Less" <=> InventoryKeyCmp(kj, ki) = "Greater"
               /\ (InventoryKeyCmp(ki, kj) = "Less" /\ InventoryKeyCmp(kj, kk) = "Less")
                      => InventoryKeyCmp(ki, kk) = "Less"

\* the map of a device holds three keys, two of them with one block count,
\* and the key with the smaller block count was inserted last
C29_Witness ==
    \E dev \in DOMAIN entries :
        /\ Len(entries[dev]) = 3
        /\ entries[dev][2].key.blocks = entries[dev][3].key.blocks
        /\ entries[dev][1].key.blocks < entries[dev][2].key.blocks
        /\ ReportedKey(3) = entries[dev][1].key

----------------------------------------------------------------------------
(* Properties of the builder *)

\* C30: at RmrfdBuilder::start the daemon is armed only if arm(true) was the
\* last configuration call: the default is disarmed, and every other builder
\* call made after arm resets the switch to false.
C30_ArmedOnlyIfArmLast ==
    /\ [](builder.state \in {"started", "start_failed"} =>
             (builder.armed_at_start <=> (last_call.name = "arm" /\ last_call.arg = 1)))
    /\ [](last_call = NoCall => ~builder.rmrf_armed)
    /\ [][(last_call' # last_call \/ builder' # builder) =>
             (last_call'.name # "arm" => ~builder'.rmrf_armed)]_vars

\* the daemon was started armed after directories were added and the minimum
\* block count was changed
C30_Witness ==
    /\ builder.state = "started"
    /\ builder.armed_at_start
    /\ builder.rmrf_dirs = RmrfDirs
    /\ builder.min_blockcount # default_min_blockcount

----------------------------------------------------------------------------
(* The in_progress counter and the Drained marker *)

\* the guards of the given kind that are alive
Outstanding(type) == Cardinality({t \in Threads : guard[t].type = type})

\* the entries of the given kind in the heap
Queued(type) ==
    BagCardinality([e \in {x \in BagToSet(heap) : x.type = type} |-> heap[e]])

\* the send calls that have counted their Item and not yet pushed it
SendsInFlight == Cardinality({t \in Threads : pc[t] \in {"send_store", "send_push"}})

\* the send_drained calls that have counted their marker and not yet pushed it
MarkersInFlight == Cardinality({t \in Threads : pc[t] = "send_drained_push"})

\* C31 as stated: in every reachable state in_progress is the number of sent
\* Items whose guard is not yet destroyed: the Items in the heap (or on their
\* way into it) plus the outstanding guards created for Items.
C31_InProgressCountsItems ==
    in_progress = Queued("Item") + SendsInFlight + Outstanding("Item")

\* C31 amended: in every reachable state in_progress is the number of entries,
\* Items and Drained markers alike, that were counted by send or send_drained
\* and whose guard is not yet destroyed: the entries in the heap, the entries
\* on their way into it and the outstanding guards.
C31_InProgressCountsEntries ==
    in_progress = Queued("Item") + SendsInFlight + Outstanding("Item")
                  + Queued("Drained") + MarkersInFlight + Outstanding("Drained")

\* the counter stands at three for an Item in the heap, an Item in a guard
\* and a Drained marker in the heap
C31_Witness ==
    /\ in_progress = 3
    /\ Queued("Item") = 1
    /\ Outstanding("Item") = 1
    /\ Queued("Drained") = 1

\* C32: in_progress never underflows: a step that decrements it destroys a
\* guard and finds the counter at one or more, and in every reachable state
\* in_progress is at least the number of entries in the heap plus the number
\* of outstanding guards, for every interleaving of send, recv, try_recv,
\* into_item and the destruction of guards.
C32_NoUnderflow ==
    /\ [](in_progress >= BagCardinality(heap)
                           + Cardinality({t \in Threads : guard[t] # NoGuard}))
    /\ [][in_progress' = (in_progress - 1) % UsizeMod =>
             /\ in_progress >= 1
             /\ \E t \in Threads : guard[t] # NoGuard /\ guard'[t] = NoGuard]_vars
    /\ [][(\E t \in Threads : guard[t] # NoGuard /\ guard'[t] = NoGuard) =>
             in_progress' = in_progress - 1]_vars

\* every send and every marker was matched by the destruction of a guard, the
\* last ones by into_item, and the counter is back at zero with the queue empty
C32_Witness ==
    /\ nsent = MaxSends
    /\ in_progress = 0
    /\ HeapIsEmpty(heap)
    /\ \A t \in Threads : guard[t] = NoGuard /\ pc[t] = "got_item"

\* C33: at most one Drained marker is in the heap at any time, for every
\* interleaving of sends and guard destructions.
C33_AtMostOneDrainedInHeap == CopiesIn(Drained, heap) <= 1

----------------------------------------------------------------------------
(* The worker's guard *)

\* worker t is inside the match statement of its loop: between the return of
\* recv and the end of the arm
InMatch(t) ==
    pc[t] \in {"match", "entry", "send_entry", "drop",
               "send_store", "send_push", "send_notify"}

\* worker t is processing a directory: it enumerates one, or is sending a
\* sub-directory to dirs_queue or an Entry or Error record to the channel
InDirectory(t) ==
    \/ pc[t] \in {"entry", "send_store", "send_push", "send_notify"}
    \/ pc[t] = "send_entry" /\ msg[t].kind # "Done"

\* C34: a worker keeps the guard of a work item until it has finished the
\* directory: the guard is destroyed only when no entry is left, no record is
\* waiting to be sent and no send to dirs_queue is under way. Hence
\* in_progress is at least 1 while a worker is processing a directory, and no
\* step takes in_progress from 1 to 0 while a worker is inside a send or
\* holds an unfinished directory.
C34_GuardKeptUntilDirectoryDone ==
    /\ [](\A t \in Workers :
             InMatch(t) => (guard[t] # NoGuard /\ in_progress >= 1))
    /\ [](\A t \in Workers :
             InDirectory(t) =>
                 /\ guard[t].type = "Item"
                 /\ cur[t] # NoDir => guard[t].k.path = cur[t])
    /\ [][\A t \in Workers :
             (guard[t] # NoGuard /\ guard'[t] = NoGuard) =>
                 /\ pc[t] \in {"entry", "drop"}
                 /\ todo[t] = {}
                 /\ msg[t] = NoMsg
                 /\ arg[t] = NoGuard]_vars
    /\ [][(in_progress = 1 /\ in_progress' = 0) =>
             \A t \in Workers :
                 /\ pc[t] \notin {"send_store", "send_push", "send_notify"}
                 /\ InMatch(t) => guard'[t] = NoGuard]_vars

\* a worker has sent the sub-directory and the Entry record of the root "r"
\* and still holds the guard of "r", while the other worker is processing the
\* sub-directory
C34_Witness ==
    \E t \in Workers : \E u \in Workers \ {t} :
        /\ pc[t] = "entry" /\ cur[t] = "r" /\ todo[t] = {}
        /\ guard[t].type = "Item" /\ guard[t].k.path = "r"
        /\ placed["Entry"] = 1
        /\ cur[u] = "d" /\ guard[u].k.path = "d"
        /\ in_progress = 2

----------------------------------------------------------------------------
(* The priority as a bit field *)

RECURSIVE BitOr(_, _)
\* the bitwise or of two naturals
BitOr(a, b) ==
    IF a = 0 THEN b
    ELSE IF b = 0 THEN a
    ELSE (IF a % 2 = 1 \/ b % 2 = 1 THEN 1 ELSE 0) + 2 * BitOr(a \div 2, b \div 2)

\* the value p the code computed for a sub-directory at depth d with inode i
\* is the depth field or-ed with the inode: no bit of the sum was carried
PriorityIsBitField(p, d, i) == p = BitOr((U16Max - d) * 2^ShiftBits, i)

\* C36: the priority computed for a sub-directory, (u16::MAX - depth) shifted
\* left by the width of the inode field plus the inode, equals
\* ((MAX - depth) << 48) | inode, does not overflow and does not carry into
\* the depth field, for every depth and every inode value.
C36_PriorityIsBitwiseOr ==
    pout.done =>
        /\ ~pout.overflow
        /\ PriorityIsBitField(pout.p1, pin.d1, pin.i1)
        /\ PriorityIsBitField(pout.p2, pin.d2, pin.i2)

----------------------------------------------------------------------------
(* Directory handles *)

\* the sub-directory items that hold the handle of d as their parent_dir:
\* queued in the heap or on their way into it, in the guard of a worker, or in
\* a guard whose drop is under way
ItemRefs(d) ==
    BagCardinality([e \in {x \in BagToSet(heap) : x.k.parent_dir = d} |-> heap[e]])
    + Cardinality({t \in Threads : arg[t].k.parent_dir = d})
    + Cardinality({t \in Threads : guard[t].k.parent_dir = d})
    + Cardinality({t \in Threads : dying[t] = d})

\* every work item submitted so far was processed and its guard destroyed
WorkDone ==
    /\ HeapItems(heap) = {}
    /\ \A t \in Threads :
          /\ arg[t].type # "Item"
          /\ guard[t].type # "Item"
          /\ pc[t] \notin {"send_drained_cas", "send_drained_fetch_add",
                           "send_drained_push", "send_drained_notify"}

\* C35: a directory handle stays open as long as a queued or in-process
\* sub-directory item references it, so the relative open of a sub-directory
\* finds its parent handle open; and once every work item was processed and
\* its guard destroyed, no directory handle is open.
C35_HandleOpenWhileReferenced ==
    /\ [](\A d \in Nodes : handles[d] >= ItemRefs(d))
    /\ [][\A t \in Workers :
             (pc[t] = "match" /\ pc'[t] # "match" /\ guard[t].k.parent_dir # NoDir)
                 => handles[guard[t].k.parent_dir] >= 1]_vars
    /\ [](WorkDone => handles = NoHandles)

\* a worker has opened the sub-directory "d" relative to the handle of "r",
\* which no worker has open any more: the item of "d" alone keeps it open
C35_Witness ==
    \E t \in Workers :
        /\ cur[t] = "d"
        /\ guard[t].k.parent_dir = "r"
        /\ \A u \in Workers : cur[u] # "r"
        /\ handles["r"] = 1
        /\ handles["d"] = 1

----------------------------------------------------------------------------
(* The Taken sentinel *)

\* C37: the Taken sentinel is never pushed into the heap and never handed out
\* by recv or try_recv: every entry in the heap, every entry in a guard and
\* every entry into_item returned is an Item or Drained. So no two entries of
\* the heap reach the unreachable arm of QueueEntry's comparison, and a match
\* on a received entry never runs its default arm.
C37_TakenNeverQueued ==
    /\ [](\A e \in BagToSet(heap) : e.type \in {"Item", "Drained"})
    /\ [](\A a \in BagToSet(heap) : \A b \in BagToSet(heap) :
             QueueEntryCmp(a, b) # "unreachable")
    /\ [](\A t \in Threads : guard[t] # NoGuard => guard[t].type \in {"Item", "Drained"})
    /\ [](\A t \in Threads : item[t] # NoGuard => item[t].type \in {"Item", "Drained"})
    /\ [][\A t \in Threads :
             Delivered(t) => /\ guard'[t].type \in {"Item", "Drained"}
                             /\ guard'[t] \in BagToSet(heap)]_vars

\* into_item has taken an Item out of its guard, which kept Taken until it
\* was destroyed, and the heap holds an Item together with a Drained marker
C37_Witness ==
    \E t \in Threads :
        /\ item[t].type = "Item"
        /\ HeapItems(heap) # {}
        /\ BagIn(Drained, heap)

====
